---- MODULE Spec2Model ----
(***************************************************************************)
(* Model of the CAN <-> Modbus control gateway: the per-unit telemetry     *)
(* store, the command router (input_flag_manager_task) with its unfreeze   *)
(* thread (reset_control_frozen), the CAN receive/transmit tasks, the      *)
(* Modbus register server and the Modbus inverter clients, connected by    *)
(* the channels main() creates.                                            *)
(*                                                                         *)
(* Time is abstracted: a sleep or timer may end at any moment.  Every lock *)
(* acquisition, channel operation and socket operation is one step.        *)
(***************************************************************************)
EXTENDS Integers, Sequences, FiniteSets, TLC

(***************************************************************************)
(* Bounds of the model.                                                    *)
(***************************************************************************)
\* commands put on the input channel in one behaviour of the router alone
MaxCmds == 3
\* commands put on the input channel in one behaviour of the whole system
MaxSysCmds == 1
\* CAN frames the two receive tasks decode in one behaviour
MaxFrames == 1
\* detached blocking receives tracked per channel (the count saturates)
MaxOrphans == 1
\* CAN frames decoded in one behaviour of the CAN ingestion alone
MaxCanFrames == 2
MaxPoisonCmds == 2

\* modbus_client.rs: the registers and values of the OFF sequence
INVERTER_REG_MODE == 40231
INVERTER_REG_UNKNOWN1 == 40191
INVERTER_REG_UNKNOWN2 == 40187
INVERTER_OFF_MODE_VALUE == 3
INVERTER_OFF_UNKNOWN1_VALUE == 0
INVERTER_OFF_UNKNOWN2_VALUE == 0

\* data.rs: the Modbus register map
REG_MIN_CELL_VOLTAGE == 1
REG_MAX_CELL_VOLTAGE == 2
REG_MIN_TEMPERATURE == 3
REG_MAX_TEMPERATURE == 4
REG_BMS_INFO == 8
REG_SOC == 5
REG_CURRENT == 6
REG_TOTAL_VOLTAGE == 7
REG_WARNING_1 == 9
REG_WARNING_2 == 10
REG_ERROR_1 == 11
REG_ERROR_2 == 12
REG_ON == 21
REG_QUIT == 22

Units == {1, 2}
Clients == {1, 2}
SystemCommand == {"Off", "On", "Quit"}

\* Option<T>: None is the empty sequence, Some(v) the one-element sequence
None == <<>>
Some(v) == <<v>>
IsSome(o) == o # <<>>
Unwrap(o) == o[1]

(***************************************************************************)
(* Telemetry store (data.rs, main.rs)                                      *)
(***************************************************************************)
\* #[derive(Default)] BmsData: every field None
BmsDataDefault ==
  [ min_cell_voltage |-> None, max_cell_voltage |-> None,
    min_temperature |-> None, max_temperature |-> None,
    info |-> None, soc |-> None, current |-> None, total_voltage |-> None,
    warning1 |-> None, warning2 |-> None, error1 |-> None, error2 |-> None,
    on |-> None, quit |-> None, control_frozen |-> None ]

\* mutant: main() starts info, error1 and error2 with 0
BmsDataInitial_AllZero ==
  [ min_cell_voltage |-> Some(0), max_cell_voltage |-> Some(0),
    min_temperature |-> Some(0), max_temperature |-> Some(0),
    info |-> Some(0), soc |-> Some(0), current |-> Some(0),
    total_voltage |-> Some(0), warning1 |-> Some(0), warning2 |-> Some(0),
    error1 |-> Some(0), error2 |-> Some(0),
    on |-> Some(0), quit |-> Some(0), control_frozen |-> Some(FALSE) ]

\* the value main() puts in each Arc<RwLock<Option<BmsData>>>
BmsDataInitial ==
  [ min_cell_voltage |-> Some(0), max_cell_voltage |-> Some(0),
    min_temperature |-> Some(0), max_temperature |-> Some(0),
    info |-> Some(255), soc |-> Some(0), current |-> Some(0),
    total_voltage |-> Some(0), warning1 |-> Some(0), warning2 |-> Some(0),
    error1 |-> Some(255), error2 |-> Some(255),
    on |-> Some(0), quit |-> Some(0), control_frozen |-> Some(FALSE) ]

\* Option::get_or_insert_default / get_or_insert_with(BmsData::default)
GetOrInsertDefault(opt) == IF IsSome(opt) THEN Unwrap(opt) ELSE BmsDataDefault

\* the store with control_frozen of unit u set to Some(b), under the write lock
SetControlFrozen(st, u, b) ==
  [st EXCEPT ![u] = Some([GetOrInsertDefault(st[u]) EXCEPT !.control_frozen = Some(b)])]

\* control_frozen of unit u as another task would read it now
Frozen(st, u) ==
  IsSome(st[u]) /\ IsSome(Unwrap(st[u]).control_frozen)
    /\ Unwrap(Unwrap(st[u]).control_frozen)

\* mutant: the value is cast (value as u8) instead of checked
U8TryFrom_Truncate(value) == Some(value % 256)

\* u8::try_from(value: u16)
U8TryFrom(value) == IF value <= 255 THEN Some(value) ELSE None

\* mutant: the REG_QUIT arm stores into self.on
SetRegister_QuitIntoOn(self, address, value) ==
  IF address \in {REG_ON, REG_QUIT} THEN
    IF value <= 255
    THEN [ok |-> TRUE, exc |-> "", data |-> [self EXCEPT !.on = Some(value)]]
    ELSE [ok |-> FALSE, exc |-> "IllegalDataValue", data |-> self]
  ELSE IF address \in 1..12
  THEN [ok |-> FALSE, exc |-> "IllegalFunction", data |-> self]
  ELSE [ok |-> FALSE, exc |-> "IllegalDataAddress", data |-> self]

\* mutant: a read-only address is answered like an unknown one
SetRegister_ReadOnlyAsUnknown(self, address, value) ==
  IF address = REG_ON THEN
    IF value <= 255
    THEN [ok |-> TRUE, exc |-> "", data |-> [self EXCEPT !.on = Some(value)]]
    ELSE [ok |-> FALSE, exc |-> "IllegalDataValue", data |-> self]
  ELSE IF address = REG_QUIT THEN
    IF value <= 255
    THEN [ok |-> TRUE, exc |-> "", data |-> [self EXCEPT !.quit = Some(value)]]
    ELSE [ok |-> FALSE, exc |-> "IllegalDataValue", data |-> self]
  ELSE [ok |-> FALSE, exc |-> "IllegalDataAddress", data |-> self]

\* mutant: a write to REG_QUIT also acknowledges the errors
SetRegister_QuitClearsErrors(self, address, value) ==
  IF address = REG_ON THEN
    IF IsSome(U8TryFrom(value))
    THEN [ok |-> TRUE, exc |-> "",
          data |-> [self EXCEPT !.on = Some(Unwrap(U8TryFrom(value)))]]
    ELSE [ok |-> FALSE, exc |-> "IllegalDataValue", data |-> self]
  ELSE IF address = REG_QUIT THEN
    IF IsSome(U8TryFrom(value))
    THEN [ok |-> TRUE, exc |-> "",
          data |-> [self EXCEPT !.quit = Some(Unwrap(U8TryFrom(value))),
                                !.error1 = Some(0), !.error2 = Some(0)]]
    ELSE [ok |-> FALSE, exc |-> "IllegalDataValue", data |-> self]
  ELSE IF address \in {REG_MIN_CELL_VOLTAGE, REG_MAX_CELL_VOLTAGE,
                       REG_MIN_TEMPERATURE, REG_MAX_TEMPERATURE, REG_BMS_INFO,
                       REG_SOC, REG_CURRENT, REG_TOTAL_VOLTAGE, REG_WARNING_1,
                       REG_WARNING_2, REG_ERROR_1, REG_ERROR_2}
  THEN [ok |-> FALSE, exc |-> "IllegalFunction", data |-> self]
  ELSE [ok |-> FALSE, exc |-> "IllegalDataAddress", data |-> self]

\* BmsData::set_register: [ok, data, exc]; data is self after the call
SetRegister(self, address, value) ==
  IF address = REG_ON THEN
    IF IsSome(U8TryFrom(value))
    THEN [ok |-> TRUE, exc |-> "",
          data |-> [self EXCEPT !.on = Some(Unwrap(U8TryFrom(value)))]]
    ELSE [ok |-> FALSE, exc |-> "IllegalDataValue", data |-> self]
  ELSE IF address = REG_QUIT THEN
    IF IsSome(U8TryFrom(value))
    THEN [ok |-> TRUE, exc |-> "",
          data |-> [self EXCEPT !.quit = Some(Unwrap(U8TryFrom(value)))]]
    ELSE [ok |-> FALSE, exc |-> "IllegalDataValue", data |-> self]
  ELSE IF address \in {REG_MIN_CELL_VOLTAGE, REG_MAX_CELL_VOLTAGE,
                       REG_MIN_TEMPERATURE, REG_MAX_TEMPERATURE, REG_BMS_INFO,
                       REG_SOC, REG_CURRENT, REG_TOTAL_VOLTAGE, REG_WARNING_1,
                       REG_WARNING_2, REG_ERROR_1, REG_ERROR_2}
  THEN [ok |-> FALSE, exc |-> "IllegalFunction", data |-> self]
  ELSE [ok |-> FALSE, exc |-> "IllegalDataAddress", data |-> self]

\* u16::from(v: u8) under Option::map
MapU16(opt) == opt

\* Option::unwrap_or
UnwrapOr(opt, dflt) == IF IsSome(opt) THEN Unwrap(opt) ELSE dflt

\* BmsData::get_register: Option<u16>
GetRegister(self, address) ==
  CASE address = REG_MIN_CELL_VOLTAGE -> self.min_cell_voltage
    [] address = REG_MAX_CELL_VOLTAGE -> self.max_cell_voltage
    [] address = REG_MIN_TEMPERATURE -> MapU16(self.min_temperature)
    [] address = REG_MAX_TEMPERATURE -> MapU16(self.max_temperature)
    [] address = REG_BMS_INFO -> Some(UnwrapOr(MapU16(self.info), 255))
    [] address = REG_SOC -> MapU16(self.soc)
    [] address = REG_CURRENT -> self.current
    [] address = REG_TOTAL_VOLTAGE -> self.total_voltage
    [] address = REG_WARNING_1 -> MapU16(self.warning1)
    [] address = REG_WARNING_2 -> MapU16(self.warning2)
    [] address = REG_ERROR_1 -> Some(UnwrapOr(MapU16(self.info), 255))
    [] address = REG_ERROR_2 -> Some(UnwrapOr(MapU16(self.info), 255))
    [] address = REG_ON -> MapU16(self.on)
    [] address = REG_QUIT -> MapU16(self.quit)
    [] OTHER -> None

\* the result of `addr + i` on u16 when it exceeds u16::MAX: the build with
\* overflow checks panics, the build without them wraps
U16Max == 65535
AddU16(a, b) ==
  IF a + b <= U16Max THEN {[panic |-> FALSE, val |-> a + b]}
  ELSE {[panic |-> TRUE, val |-> 0],
        [panic |-> FALSE, val |-> (a + b) % (U16Max + 1)]}

\* the loop of ReadHoldingRegisters / ReadInputRegisters over Some(data):
\* registers.push(data.get_register(addr + i).unwrap_or(0)) for i in 0..cnt;
\* the set of outcomes [panic, regs]
RECURSIVE ReadLoop(_, _, _, _, _)
ReadLoop(data, addr, cnt, i, registers) ==
  IF i >= cnt THEN {[panic |-> FALSE, regs |-> registers]}
  ELSE UNION { IF a.panic THEN {[panic |-> TRUE, regs |-> <<>>]}
               ELSE ReadLoop(data, addr, cnt, i + 1,
                      Append(registers, UnwrapOr(GetRegister(data, a.val), 0)))
               : a \in AddU16(addr, i) }

\* log::trace!(.., addr, addr + cnt - 1, ..) after the loop: with trace
\* logging enabled the build with overflow checks panics when the last
\* address is not a u16
TraceRange(addr, cnt) ==
  IF addr + cnt - 1 \in 0..U16Max THEN {}
  ELSE {[panic |-> TRUE, regs |-> <<>>]}

\* mutant: the None arm fails instead of answering zeros
ReadRegisters_NoneFails(opt, addr, cnt) ==
  IF IsSome(opt)
  THEN ReadLoop(Unwrap(opt), addr, cnt, 0, <<>>) \cup TraceRange(addr, cnt)
  ELSE {[panic |-> TRUE, regs |-> <<>>]}

\* what a read request (addr, cnt) is answered with for the store content
\* opt: the loop over Some(data), vec![0; cnt] for None
ReadRegisters(opt, addr, cnt) ==
  IF IsSome(opt)
  THEN ReadLoop(Unwrap(opt), addr, cnt, 0, <<>>) \cup TraceRange(addr, cnt)
  ELSE {[panic |-> FALSE, regs |-> [i \in 1..cnt |-> 0]]}

\* mutant: only the first value is written
WriteLoop_FirstOnly(data, addr, values, i) ==
  IF Len(values) = 0
  THEN {[panic |-> FALSE, ok |-> TRUE, exc |-> "", data |-> data]}
  ELSE LET r == SetRegister(data, addr, values[1]) IN
       {[panic |-> FALSE, ok |-> r.ok, exc |-> r.exc, data |-> r.data]}

\* mutant: the request is validated as a whole before anything is written
WriteLoop_Rollback(data, addr, values, i) ==
  LET n == Len(values)
      refused == {j \in 1..n : ~SetRegister(data, addr + j - 1, values[j]).ok}
      first == CHOOSE j \in refused : \A k \in refused : j <= k
      d1 == IF n >= 1 THEN SetRegister(data, addr, values[1]).data ELSE data
      d2 == IF n >= 2 THEN SetRegister(d1, addr + 1, values[2]).data ELSE d1
  IN IF refused # {}
     THEN {[panic |-> FALSE, ok |-> FALSE, data |-> data,
            exc |-> SetRegister(data, addr + first - 1, values[first]).exc]}
     ELSE {[panic |-> FALSE, ok |-> TRUE, exc |-> "", data |-> d2]}

\* the loop of WriteMultipleRegisters: set_register(addr + i, values[i]) in
\* order, return Err(e) at the first error; the set of outcomes
\* [panic, ok, exc, data]
RECURSIVE WriteLoop(_, _, _, _)
WriteLoop(data, addr, values, i) ==
  IF i >= Len(values)
  THEN {[panic |-> FALSE, ok |-> TRUE, exc |-> "", data |-> data]}
  ELSE UNION { IF a.panic
               THEN {[panic |-> TRUE, ok |-> FALSE, exc |-> "", data |-> data]}
               ELSE LET r == SetRegister(data, a.val, values[i + 1]) IN
                    IF r.ok THEN WriteLoop(r.data, addr, values, i + 1)
                    ELSE {[panic |-> FALSE, ok |-> FALSE, exc |-> r.exc,
                           data |-> r.data]}
               : a \in AddU16(addr, i) }

\* the write requests the Modbus masters send here: the writable registers,
\* read-only and unknown addresses; values inside and outside u8
SrvAddrs == {0, REG_MIN_CELL_VOLTAGE, REG_ERROR_2, REG_ERROR_2 + 1, REG_ON,
             REG_QUIT, REG_QUIT + 1}
SrvVals == {255, 256}
\* the write-multiple requests: start addresses and value lists
SrvMultiAddrs == {REG_ERROR_2, REG_ON, REG_QUIT, U16Max}
SrvMultiVals == { <<>>, <<253>>, <<253, 254>>, <<253, 254, 252>>, <<300>>,
                  <<1, 300>> }
\* the read requests: <<addr, cnt>>
SrvReads == { <<1, 12>>, <<11, 2>>, <<20, 4>>, <<0, 0>>, <<U16Max, 2>> }

\* u16::from_le_bytes([lo, hi])
FromLeBytes(lo, hi) == lo + 256 * hi

\* frame.as_bytes() (socketcan::frame::AsPtr), which the code reads where its
\* comments say data(): the payload bytes, or, where AsPtr hands out the
\* whole C can_frame, its 16 bytes (can_id little endian with the EFF flag,
\* len, pad, res0, len8_dlc, data[8], the payload padded with zeros).  Both
\* readings are kept.
RawBytes(frame) ==
  << frame.id % 256, (frame.id \div 256) % 256, (frame.id \div 65536) % 256,
     128 + (frame.id \div 16777216), Len(frame.data), 0, 0, 0 >>
    \o [i \in 1..8 |-> IF i <= Len(frame.data) THEN frame.data[i] ELSE 0]

AsBytes(frame) == {frame.data, RawBytes(frame)}

\* mutant: the decoded fields are put into a fresh BmsData
UpdateFromFrame_Rebuild(self, can_id, data) ==
  IF can_id \notin {45313, 45314, 45569, 45570}
  THEN [ok |-> FALSE, data |-> self, err |-> "UnsupportedCanId",
        expected |-> 8, actual |-> Len(data)]
  ELSE IF Len(data) # 8
  THEN [ok |-> FALSE, data |-> self, err |-> "InvalidCanDataLength",
        expected |-> 8, actual |-> Len(data)]
  ELSE [ok |-> TRUE, err |-> "", expected |-> 8, actual |-> Len(data),
        data |-> IF can_id \in {45313, 45314}
          THEN [BmsDataInitial EXCEPT
                  !.min_cell_voltage = Some(FromLeBytes(data[1], data[2])),
                  !.max_cell_voltage = Some(FromLeBytes(data[3], data[4])),
                  !.min_temperature = Some(data[5]),
                  !.max_temperature = Some(data[6]),
                  !.info = Some(data[7]),
                  !.soc = Some(data[8])]
          ELSE [BmsDataInitial EXCEPT
                  !.current = Some(FromLeBytes(data[1], data[2])),
                  !.total_voltage = Some(FromLeBytes(data[3], data[4])),
                  !.warning1 = Some(data[5]),
                  !.warning2 = Some(data[6]),
                  !.error1 = Some(data[7]),
                  !.error2 = Some(data[8])]]

\* BmsData::update_from_frame with can_id = frame.raw_id() and data =
\* frame.as_bytes(): [ok, data, err, expected, actual]; data is the updated
\* BmsData (self is left as it was when the result is an error), expected
\* and actual are the fields of AppError::InvalidCanDataLength
UpdateFromFrame(self, can_id, data) ==
  IF can_id \in {45313, 45314} THEN                \* 0xB101 | 0xB102
    IF Len(data) # 8
    THEN [ok |-> FALSE, data |-> self, err |-> "InvalidCanDataLength",
          expected |-> 8, actual |-> Len(data)]
    ELSE [ok |-> TRUE, err |-> "", expected |-> 8, actual |-> Len(data),
          data |-> [self EXCEPT
            !.min_cell_voltage = Some(FromLeBytes(data[1], data[2])),
            !.max_cell_voltage = Some(FromLeBytes(data[3], data[4])),
            !.min_temperature = Some(data[5]),
            !.max_temperature = Some(data[6]),
            !.info = Some(data[7]),
            !.soc = Some(data[8])]]
  ELSE IF can_id \in {45569, 45570} THEN           \* 0xB201 | 0xB202
    IF Len(data) # 8
    THEN [ok |-> FALSE, data |-> self, err |-> "InvalidCanDataLength",
          expected |-> 8, actual |-> Len(data)]
    ELSE [ok |-> TRUE, err |-> "", expected |-> 8, actual |-> Len(data),
          data |-> [self EXCEPT
            !.current = Some(FromLeBytes(data[1], data[2])),
            !.total_voltage = Some(FromLeBytes(data[3], data[4])),
            !.warning1 = Some(data[5]),
            !.warning2 = Some(data[6]),
            !.error1 = Some(data[7]),
            !.error2 = Some(data[8])]]
  ELSE [ok |-> FALSE, data |-> self, err |-> "UnsupportedCanId",
        expected |-> 8, actual |-> Len(data)]

\* mutant: only data[6] is looked at
FrameRaisesFault_Error1Only(can_id, data) ==
  can_id \in {45569, 45570} /\ data[7] # 0

\* rx_task, after a successful update: for can_id 0xB201 | 0xB202, data =
\* frame.as_bytes() with data[6] != 0 or data[7] != 0 (0-based) makes the
\* task send () on error_tx
FrameRaisesFault(can_id, data) ==
  can_id \in {45569, 45570} /\ (data[7] # 0 \/ data[8] # 0)

\* the identifiers rx_task's receive filter lets through for bms_id
CanIds(bms_id) == IF bms_id = 1 THEN {45313, 45569} ELSE {45314, 45570}

\* the frames the receive task of bms_id is given here: the type-2 frame with
\* error1 = 1 and a type-2 frame with both error bytes zero
RxFrames(bms_id) ==
  { [id |-> IF bms_id = 1 THEN 45569 ELSE 45570, data |-> d] :
      d \in { <<0, 0, 0, 0, 0, 0, 1, 0>>, <<0, 0, 0, 0, 0, 0, 0, 0>> } }

\* the frames the CAN ingestion alone is given: a type-1 frame, type-2 frames
\* with error1 set, with error2 set and with both zero, and a type-2 frame
\* of 7 bytes
CanFrames(bms_id) ==
  { [id |-> IF bms_id = 1 THEN 45313 ELSE 45314,
     data |-> <<52, 18, 120, 86, 9, 10, 11, 12>>] }
  \cup
  { [id |-> IF bms_id = 1 THEN 45569 ELSE 45570, data |-> d] :
      d \in { <<1, 2, 3, 4, 5, 6, 7, 0>>, <<1, 2, 3, 4, 5, 6, 0, 8>>,
              <<1, 2, 3, 4, 5, 6, 0, 0>>, <<1, 2, 3, 4, 5, 6, 7>> } }

\* the Modbus writes of execute_inverter_off_sequence, in order
OffWrites ==
  << [reg |-> INVERTER_REG_MODE, val |-> INVERTER_OFF_MODE_VALUE],
     [reg |-> INVERTER_REG_UNKNOWN1, val |-> INVERTER_OFF_UNKNOWN1_VALUE],
     [reg |-> INVERTER_REG_UNKNOWN2, val |-> INVERTER_OFF_UNKNOWN2_VALUE] >>

\* embedded_can StandardId::new: None for an identifier above 0x7FF
StandardIdNew(raw) == IF raw <= 2047 THEN Some(raw) ELSE None

\* the identifier tx_task builds its frame with for a command
TxCanId(cmd) == IF cmd = "Quit" THEN 41216 ELSE 41728   \* 0xA100, 0xA300

\* a blocking receive (spawn_blocking(move || rx.recv())) of a select round
TaskIdle == [st |-> "idle", val |-> 0]
TaskWait == [st |-> "wait", val |-> 0]
TaskGot(v) == [st |-> "got", val |-> v]
\* rx.recv() returned Err(RecvError): the channel is empty and disconnected
TaskErr == [st |-> "err", val |-> 0]

\* one more detached receive blocked on a channel
Orphaned(n) == IF n < MaxOrphans THEN n + 1 ELSE n

VARIABLES
  store,        \* store[u]: Option<BmsData> behind unit u's RwLock
  inputQ,       \* std::sync::mpsc channel of SystemCommand into the router
  outputQ,      \* crossbeam channel of SystemCommand out of the router
  faultQ,       \* crossbeam channel of () from the CAN receive tasks; each
                \* entry is tagged with the unit that sent it
  rpc,          \* router: position in input_flag_manager_task
  rmsg,         \* router: msg of the current loop iteration
  rcf1,         \* router: local control_frozen1
  rcf2,         \* router: local control_frozen2
  resetSleep,   \* unfreeze threads still in their 1 s sleep
  resetMid,     \* unfreeze threads between their two writes
  rhist,        \* history: bookkeeping of the current iteration of the router
  checked,      \* history: one record per command the router decided on
  forwarded,    \* history: the commands the router sent on the output channel
  resetsDone,   \* history: unfreeze threads that have finished
  cpc,          \* cpc[c]: position of Modbus client c in task()
  offIdx,       \* offIdx[c]: index in writes of the next write of the OFF sequence
  cmdTask,      \* cmdTask[c]: this select round's blocking receive on output_rx
  errTask,      \* errTask[c]: this select round's blocking receive on error_rx
  orphanCmd,    \* detached blocking receives still blocked on output_rx
  orphanErr,    \* detached blocking receives still blocked on error_rx
  errRxClosed,  \* errRxClosed[c]: client c's local error_rx_closed
  rxAlive,      \* the units whose receive task still runs and holds its
                \* sender of the fault channel
  txpc,         \* position of the CAN transmit task
  nFrames,      \* history: frames the receive tasks have decoded
  rxCount,      \* history: rxCount[u]: frames unit u's receive task has read
  lastRx,       \* history: the latest frame a receive task read, and whether
                \* update_from_frame returned Ok for it
  faultsEmitted,\* history: faultsEmitted[u]: () sent by unit u's receive task
  offByFault,   \* history: offByFault[c]: OFF sequences client c started for a fault
  discarded,    \* history: messages a client's receive took and nobody handled
  recvBy,       \* history: recvBy[c]: commands client c's select received
  seqLog,       \* history: seqLog[c]: the writes of client c's OFF sequence, kept
                \* until the client's next step after the sequence
  failed,       \* history: failed[c]: client c's latest socket operation failed
  resp,         \* the latest request to a Register Server and its answer
  poisoned,     \* the units whose RwLock is poisoned
  arrived,      \* history: the commands sent into the input channel, in order
  held,         \* held[u]: the task holding the write guard of unit u's RwLock
                \* ("none" if nobody) and the tasks holding a read guard
  lrun          \* lrun[t]: the lock operations of task t's current round and
                \* the position of its next one

storeVars == <<store>>
chanVars == <<inputQ, outputQ, faultQ>>
routerVars == <<rpc, rmsg, rcf1, rcf2>>
resetVars == <<resetSleep, resetMid>>
histVars == <<rhist, checked, forwarded, resetsDone>>
clientVars == <<cpc, offIdx, cmdTask, errTask, orphanCmd, orphanErr,
                errRxClosed>>
clientHist == <<offByFault, discarded, seqLog, failed>>
rxVars == <<nFrames, faultsEmitted, lastRx, rxAlive, rxCount>>
\* the state of the locks; no step of a task changes it
lockVars == <<poisoned, held, lrun>>
vars == <<storeVars, chanVars, routerVars, resetVars, histVars, clientVars,
          clientHist, rxVars, txpc, recvBy, resp, lockVars, arrived>>
\* everything outside the router, its unfreeze thread and the input channel
plantVars == <<clientVars, clientHist, rxVars, txpc, recvBy, resp, lockVars,
               arrived>>

\* the tasks that take a store lock
LockTasks == {"router", "reset", "rx1", "rx2", "server1", "server2"}

\* a task outside any block that takes a lock
LockIdle == [script |-> <<>>, idx |-> 1]

\* lock.read() / lock.write() of unit u's RwLock, and the drop of the guard
\* at the end of its block
Acq(m, u) == [op |-> "acq", mode |-> m, unit |-> u]
Rel(u) == [op |-> "rel", mode |-> "", unit |-> u]

\* both units unfrozen: the router's Idle state
Idle == ~Frozen(store, 1) /\ ~Frozen(store, 2)

\* commands put on the input channel so far
NumProduced ==
  Len(checked) + Len(inputQ) + (IF rpc \in {"read1", "read2"} THEN 1 ELSE 0)

\* commands the router has accepted so far
NumAccepted == IF checked = <<>> THEN 0 ELSE checked[Len(checked)].nAcc

\* the state after main() has created the stores st, the channels and the
\* tasks
InitWith(st) ==
  /\ store = st
  /\ inputQ = <<>> /\ outputQ = <<>> /\ faultQ = <<>>
  /\ rpc = "recv" /\ rmsg = "Off" /\ rcf1 = FALSE /\ rcf2 = FALSE
  /\ resetSleep = 0 /\ resetMid = 0
  /\ rhist = [deqEpoch |-> 0, deqIdle |-> TRUE, chkIdle |-> TRUE]
  /\ checked = <<>> /\ forwarded = <<>> /\ resetsDone = 0
  /\ cpc = [c \in Clients |-> "connect"]
  /\ offIdx = [c \in Clients |-> 1]
  /\ cmdTask = [c \in Clients |-> TaskIdle]
  /\ errTask = [c \in Clients |-> TaskIdle]
  /\ orphanCmd = 0 /\ orphanErr = 0
  /\ errRxClosed = [c \in Clients |-> FALSE]
  /\ rxAlive = Units
  /\ txpc = "recv"
  /\ nFrames = 0
  /\ poisoned = {}
  /\ arrived = <<>>
  /\ held = [u \in Units |-> [writer |-> "none", readers |-> {}]]
  /\ lrun = [t \in LockTasks |-> LockIdle]
  /\ lastRx = [unit |-> 0, id |-> 0, data |-> <<>>, ok |-> FALSE, err |-> "",
               expected |-> 0, actual |-> 0]
  /\ rxCount = [u \in Units |-> 0]
  /\ faultsEmitted = [u \in Units |-> 0]
  /\ offByFault = [c \in Clients |-> 0]
  /\ discarded = 0
  /\ recvBy = [c \in Clients |-> 0]
  /\ seqLog = [c \in Clients |-> <<>>]
  /\ failed = [c \in Clients |-> FALSE]
  /\ resp = [unit |-> 0, fn |-> "", addr |-> 0, val |-> 0, vals |-> <<>>,
             ok |-> FALSE, exc |-> "", out |-> <<>>]

Init == InitWith([u \in Units |-> Some(BmsDataInitial)])

\* a Register Server built over stores that hold no BmsData yet
InitUninit == InitWith([u \in Units |-> None])

(***************************************************************************)
(* Command sources                                                         *)
(***************************************************************************)
\* the Indicator/Input Adapter holds input_tx1 and sends a SystemCommand for
\* a button press
GpioInput(n, cmd) ==
  /\ NumProduced < n
  /\ rpc \notin {"done", "failed"}
  /\ inputQ' = Append(inputQ, cmd)
  /\ arrived' = Append(arrived, cmd)
  /\ UNCHANGED <<outputQ, faultQ, storeVars, routerVars, resetVars, histVars,
                 clientVars, clientHist, rxVars, txpc, recvBy, resp, lockVars>>

(***************************************************************************)
(* Command Router: input_flag_manager_task (main.rs)                       *)
(***************************************************************************)
\* for msg in input_rx.iter()
RouterRecv ==
  /\ rpc = "recv" /\ inputQ # <<>>
  /\ rmsg' = Head(inputQ) /\ inputQ' = Tail(inputQ)
  /\ rpc' = "read1"
  /\ rhist' = [rhist EXCEPT !.deqEpoch = resetsDone, !.deqIdle = Idle]
  /\ UNCHANGED plantVars /\ UNCHANGED <<outputQ, faultQ, storeVars, rcf1, rcf2, resetVars,
                 checked, forwarded, resetsDone>>

\* what the router reads under the read lock of unit u: Some(data) =>
\* data.control_frozen.unwrap(), None => false
ReadControlFrozen(st, u) ==
  IF IsSome(st[u]) THEN Unwrap(Unwrap(st[u]).control_frozen) ELSE FALSE

\* mutant: the router reads through a poisoned lock
RouterRead1_IgnorePoison ==
  /\ rpc = "read1"
  /\ rcf1' = ReadControlFrozen(store, 1)
  /\ rpc' = "read2"
  /\ rhist' = [rhist EXCEPT !.chkIdle = Idle]
  /\ UNCHANGED plantVars /\ UNCHANGED <<chanVars, storeVars, rmsg, rcf2, resetVars,
                 checked, forwarded, resetsDone>>

\* bms_data1.read(); a poisoned lock makes the task return
\* Err(AppError::LockPoisoned)
RouterRead1 ==
  /\ rpc = "read1"
  /\ IF 1 \in poisoned
     THEN rpc' = "failed" /\ UNCHANGED <<rcf1, rhist>>
     ELSE /\ rcf1' = ReadControlFrozen(store, 1)
          /\ rpc' = "read2"
          /\ rhist' = [rhist EXCEPT !.chkIdle = Idle]
  /\ UNCHANGED plantVars /\ UNCHANGED <<chanVars, storeVars, rmsg, rcf2, resetVars,
                 checked, forwarded, resetsDone>>

\* mutants of the freeze check: only unit 1 is consulted; nothing is consulted
RouterAccepts_OnlyUnit1(cf1, cf2) == ~cf1
RouterAccepts_Always(cf1, cf2) == TRUE

\* let control_frozen = control_frozen1 || control_frozen2; if !control_frozen
RouterAccepts(cf1, cf2) == ~(cf1 \/ cf2)

\* bms_data2.read(), then the freeze check
RouterRead2 ==
  /\ rpc = "read2"
  /\ IF 2 \in poisoned
     THEN rpc' = "failed" /\ UNCHANGED <<rcf2, checked>>
     ELSE
     /\ rcf2' = ReadControlFrozen(store, 2)
     /\ LET acc == RouterAccepts(rcf1, rcf2') IN
        /\ rpc' = IF acc THEN "write1" ELSE "recv"
        /\ checked' = Append(checked,
             [cmd |-> rmsg, deqEpoch |-> rhist.deqEpoch, deqIdle |-> rhist.deqIdle,
              chkIdle |-> rhist.chkIdle, chkEndIdle |-> Idle,
              chkEpoch |-> resetsDone, acc |-> acc,
              nAcc |-> NumAccepted + (IF acc THEN 1 ELSE 0)])
  /\ UNCHANGED plantVars /\ UNCHANGED <<chanVars, storeVars, rmsg, rcf1, resetVars, rhist,
                 forwarded, resetsDone>>

\* bms_data1.write(), control_frozen = Some(true)
RouterWrite1 ==
  /\ rpc = "write1"
  /\ IF 1 \in poisoned
     THEN rpc' = "failed" /\ UNCHANGED store
     ELSE /\ store' = SetControlFrozen(store, 1, TRUE)
          /\ rpc' = "write2"
  /\ UNCHANGED plantVars /\ UNCHANGED <<chanVars, rmsg, rcf1, rcf2, resetVars, histVars>>

\* mutant: the second block writes unit 1's store again
RouterWrite2_WrongUnit ==
  /\ rpc = "write2"
  /\ store' = SetControlFrozen(store, 1, TRUE)
  /\ rpc' = "spawn"
  /\ UNCHANGED plantVars /\ UNCHANGED <<chanVars, rmsg, rcf1, rcf2, resetVars, histVars>>

\* bms_data2.write(), control_frozen = Some(true)
RouterWrite2 ==
  /\ rpc = "write2"
  /\ IF 2 \in poisoned
     THEN rpc' = "failed" /\ UNCHANGED store
     ELSE /\ store' = SetControlFrozen(store, 2, TRUE)
          /\ rpc' = "spawn"
  /\ UNCHANGED plantVars /\ UNCHANGED <<chanVars, rmsg, rcf1, rcf2, resetVars, histVars>>

\* std::thread::spawn(move || reset_control_frozen(..))
RouterSpawn ==
  /\ rpc = "spawn"
  /\ resetSleep' = resetSleep + 1
  /\ rpc' = "send"
  /\ UNCHANGED plantVars /\ UNCHANGED <<chanVars, storeVars, rmsg, rcf1, rcf2, resetMid, histVars>>

\* mutant: the router forwards Off whatever it received
RouterSend_Off ==
  /\ rpc = "send"
  /\ outputQ' = Append(outputQ, "Off")
  /\ forwarded' = Append(forwarded, "Off")
  /\ rpc' = "recv"
  /\ UNCHANGED plantVars /\ UNCHANGED <<inputQ, faultQ, storeVars, rmsg, rcf1, rcf2, resetVars,
                 rhist, checked, resetsDone>>

\* output_tx.send(msg.clone())
RouterSend ==
  /\ rpc = "send"
  /\ outputQ' = Append(outputQ, rmsg)
  /\ forwarded' = Append(forwarded, rmsg)
  /\ rpc' = "recv"
  /\ UNCHANGED plantVars /\ UNCHANGED <<inputQ, faultQ, storeVars, rmsg, rcf1, rcf2, resetVars,
                 rhist, checked, resetsDone>>

(***************************************************************************)
(* Unfreeze thread: reset_control_frozen (main.rs)                         *)
(***************************************************************************)
\* mutant: the first block unfreezes both units, the second block follows
ResetWrite1_Both ==
  /\ resetSleep > 0
  /\ resetSleep' = resetSleep - 1
  /\ store' = SetControlFrozen(SetControlFrozen(store, 1, FALSE), 2, FALSE)
  /\ resetMid' = resetMid + 1
  /\ UNCHANGED plantVars /\ UNCHANGED <<chanVars, routerVars, histVars>>

\* the sleep ends; first block: bms_data1.write(), control_frozen = Some(false)
\* a poisoned lock makes the thread return Err(AppError::LockPoisoned)
ResetWrite1 ==
  /\ resetSleep > 0
  /\ resetSleep' = resetSleep - 1
  /\ IF 1 \in poisoned
     THEN UNCHANGED <<store, resetMid>>
     ELSE /\ store' = SetControlFrozen(store, 1, FALSE)
          /\ resetMid' = resetMid + 1
  /\ UNCHANGED plantVars /\ UNCHANGED <<chanVars, routerVars, histVars>>

\* mutant: the thread ends after its first block
ResetWrite2_Skip ==
  /\ resetMid > 0
  /\ resetMid' = resetMid - 1
  /\ resetsDone' = resetsDone + 1
  /\ UNCHANGED plantVars /\ UNCHANGED <<chanVars, storeVars, routerVars, resetSleep, rhist,
                 checked, forwarded>>

\* second block: bms_data2.write(), control_frozen = Some(false); Ok(())
ResetWrite2 ==
  /\ resetMid > 0
  /\ resetMid' = resetMid - 1
  /\ IF 2 \in poisoned
     THEN UNCHANGED <<store, resetsDone>>
     ELSE /\ store' = SetControlFrozen(store, 2, FALSE)
          /\ resetsDone' = resetsDone + 1
  /\ UNCHANGED plantVars /\ UNCHANGED <<chanVars, routerVars, resetSleep, rhist, checked, forwarded>>

(***************************************************************************)
(* CAN Ingestion: rx_task (can.rs)                                         *)
(***************************************************************************)
\* everything the router, its unfreeze thread and the command sources own
routerSide == <<inputQ, routerVars, resetVars, histVars, lockVars, arrived>>

\* socket.read_frame() returns frame; under bms_data.write() the store is
\* updated, and a FaultSignal is sent when the frame carries a fault.  A
\* poisoned lock makes the task return Err(AppError::LockPoisoned).
RxTaskStep(n, u, frame) ==
  /\ nFrames < n
  /\ u \in rxAlive
  /\ frame.id \in CanIds(u)
  /\ IF u \in poisoned
     THEN /\ rxAlive' = rxAlive \ {u}
          /\ lastRx' = [unit |-> u, id |-> frame.id, data |-> frame.data,
                        ok |-> FALSE, err |-> "LockPoisoned", expected |-> 0,
                        actual |-> 0]
          /\ UNCHANGED <<store, faultQ, faultsEmitted>>
     ELSE
     /\ \E bytes \in AsBytes(frame) :
          LET r == UpdateFromFrame(GetOrInsertDefault(store[u]), frame.id, bytes) IN
          /\ store' = [store EXCEPT ![u] = Some(r.data)]
          /\ IF r.ok /\ FrameRaisesFault(frame.id, bytes)
             THEN /\ faultQ' = Append(faultQ, u)
                  /\ faultsEmitted' = [faultsEmitted EXCEPT ![u] = @ + 1]
             ELSE UNCHANGED <<faultQ, faultsEmitted>>
          /\ lastRx' = [unit |-> u, id |-> frame.id, data |-> frame.data,
                        ok |-> r.ok, err |-> r.err, expected |-> r.expected,
                        actual |-> r.actual]
     /\ UNCHANGED rxAlive
  /\ nFrames' = nFrames + 1
  /\ rxCount' = [rxCount EXCEPT ![u] = @ + 1]
  /\ UNCHANGED <<routerSide, outputQ, clientVars, clientHist, txpc, recvBy,
                 resp>>

\* a frame read by unit u's receive task while the whole gateway runs
RxFrame(u, frame) == RxTaskStep(MaxFrames, u, frame)

(***************************************************************************)
(* Modbus Inverter Client: task (modbus_client.rs)                         *)
(***************************************************************************)
\* entering tokio::select!: both blocking receives are spawned; the one on
\* error_rx is not polled once error_rx_closed is set
NewRound(c) ==
  /\ cpc' = [cpc EXCEPT ![c] = "select"]
  /\ cmdTask' = [cmdTask EXCEPT ![c] = TaskWait]
  /\ errTask' = [errTask EXCEPT ![c] =
                   IF errRxClosed[c] THEN TaskIdle ELSE TaskWait]

\* TcpStream::connect succeeds: attach_slave, first select round
ClientConnectOk(c) ==
  /\ cpc[c] = "connect"
  /\ NewRound(c)
  /\ failed' = [failed EXCEPT ![c] = FALSE]
  /\ seqLog' = [seqLog EXCEPT ![c] = <<>>]
  /\ UNCHANGED <<routerSide, errRxClosed, storeVars, outputQ, faultQ, offIdx,
                 orphanCmd, orphanErr, offByFault, discarded,
                 rxVars, resp, txpc, recvBy>>

\* TcpStream::connect fails: sleep 5 s, continue
ClientConnectFail(c) ==
  /\ cpc[c] = "connect"
  /\ cpc' = [cpc EXCEPT ![c] = "backoff"]
  /\ failed' = [failed EXCEPT ![c] = TRUE]
  /\ seqLog' = [seqLog EXCEPT ![c] = <<>>]
  /\ UNCHANGED <<routerSide, errRxClosed, storeVars, outputQ, faultQ, offIdx,
                 cmdTask, errTask, orphanCmd, orphanErr, offByFault, discarded,
                 rxVars, resp, txpc, recvBy>>

\* the 5 s sleep ends: next iteration of the outer loop
ClientBackoffDone(c) ==
  /\ cpc[c] = "backoff"
  /\ cpc' = [cpc EXCEPT ![c] = "connect"]
  /\ UNCHANGED <<routerSide, errRxClosed, storeVars, outputQ, faultQ, offIdx,
                 cmdTask, errTask, orphanCmd, orphanErr, clientHist,
                 rxVars, resp, txpc, recvBy>>

\* rx.recv() of this round's receive on output_rx returns a command
TaskRecvCmd(c) ==
  /\ cmdTask[c].st = "wait" /\ outputQ # <<>>
  /\ cmdTask' = [cmdTask EXCEPT ![c] = TaskGot(Head(outputQ))]
  /\ outputQ' = Tail(outputQ)
  /\ UNCHANGED <<routerSide, errRxClosed, storeVars, faultQ, cpc, offIdx, errTask,
                 orphanCmd, orphanErr, clientHist, rxVars, resp, txpc, recvBy>>

\* rx.recv() of this round's receive on error_rx returns ()
TaskRecvFault(c) ==
  /\ errTask[c].st = "wait" /\ faultQ # <<>>
  /\ errTask' = [errTask EXCEPT ![c] = TaskGot(Head(faultQ))]
  /\ faultQ' = Tail(faultQ)
  /\ UNCHANGED <<routerSide, errRxClosed, storeVars, outputQ, cpc, offIdx, cmdTask,
                 orphanCmd, orphanErr, clientHist, rxVars, resp, txpc, recvBy>>

\* rx.recv() of a receive whose JoinHandle an earlier select round dropped
\* returns a command: nobody reads the result
OrphanRecvCmd ==
  /\ orphanCmd > 0 /\ outputQ # <<>>
  /\ outputQ' = Tail(outputQ)
  /\ orphanCmd' = orphanCmd - 1
  /\ discarded' = discarded + 1
  /\ UNCHANGED <<routerSide, errRxClosed, storeVars, faultQ, cpc, offIdx, cmdTask,
                 errTask, orphanErr, offByFault, seqLog, failed, rxVars, resp, txpc,
                 recvBy>>

OrphanRecvFault ==
  /\ orphanErr > 0 /\ faultQ # <<>>
  /\ faultQ' = Tail(faultQ)
  /\ orphanErr' = orphanErr - 1
  /\ discarded' = discarded + 1
  /\ UNCHANGED <<routerSide, errRxClosed, storeVars, outputQ, cpc, offIdx, cmdTask,
                 errTask, orphanCmd, offByFault, seqLog, failed, rxVars, resp, txpc,
                 recvBy>>

\* execute_inverter_off_sequence is entered
StartOff(c) ==
  /\ cpc' = [cpc EXCEPT ![c] = "off"]
  /\ offIdx' = [offIdx EXCEPT ![c] = 1]
  /\ seqLog' = [seqLog EXCEPT ![c] = <<>>]
  /\ cmdTask' = [cmdTask EXCEPT ![c] = TaskIdle]
  /\ errTask' = [errTask EXCEPT ![c] = TaskIdle]

\* select (biased): the output_rx branch is ready and is polled first.  The
\* other branches' futures are dropped: the error_rx receive stays blocked on
\* its thread, or its result, if it already has one, is thrown away.
ClientSelectCmd(c) ==
  /\ cpc[c] = "select" /\ cmdTask[c].st = "got"
  /\ orphanErr' = IF errTask[c].st = "wait" THEN Orphaned(orphanErr) ELSE orphanErr
  /\ discarded' = IF errTask[c].st = "got" THEN discarded + 1 ELSE discarded
  /\ recvBy' = [recvBy EXCEPT ![c] = @ + 1]
  /\ IF cmdTask[c].val = "Off"
     THEN StartOff(c)
     ELSE /\ NewRound(c)
          /\ seqLog' = [seqLog EXCEPT ![c] = <<>>]
          /\ UNCHANGED offIdx
  /\ UNCHANGED <<routerSide, errRxClosed, storeVars, outputQ, faultQ, orphanCmd, offByFault,
                 failed, rxVars, resp, txpc>>

\* mutant: the error_rx branch consults control_frozen like the router does
ClientSelectFault_IfUnfrozen(c) ==
  /\ cpc[c] = "select" /\ cmdTask[c].st = "wait" /\ errTask[c].st = "got"
  /\ Idle
  /\ orphanCmd' = Orphaned(orphanCmd)
  /\ offByFault' = [offByFault EXCEPT ![c] = @ + 1]
  /\ StartOff(c)
  /\ UNCHANGED <<routerSide, errRxClosed, storeVars, outputQ, faultQ, orphanErr, discarded,
                 failed, rxVars, resp, txpc, recvBy>>

\* mutant: the select is not biased, the error_rx branch may win over a
\* ready output_rx branch
ClientSelectFault_Unbiased(c) ==
  /\ cpc[c] = "select" /\ errTask[c].st = "got"
  /\ orphanCmd' = IF cmdTask[c].st = "wait" THEN Orphaned(orphanCmd) ELSE orphanCmd
  /\ discarded' = IF cmdTask[c].st = "got" THEN discarded + 1 ELSE discarded
  /\ offByFault' = [offByFault EXCEPT ![c] = @ + 1]
  /\ StartOff(c)
  /\ UNCHANGED <<routerSide, errRxClosed, storeVars, outputQ, faultQ, orphanErr,
                 failed, rxVars, resp, txpc, recvBy>>

\* select (biased): the output_rx branch is pending, the error_rx branch is
\* ready: OFF sequence, whatever the stores hold
ClientSelectFault(c) ==
  /\ cpc[c] = "select" /\ cmdTask[c].st = "wait" /\ errTask[c].st = "got"
  /\ orphanCmd' = Orphaned(orphanCmd)
  /\ offByFault' = [offByFault EXCEPT ![c] = @ + 1]
  /\ StartOff(c)
  /\ UNCHANGED <<routerSide, errRxClosed, storeVars, outputQ, faultQ, orphanErr, discarded,
                 failed, rxVars, resp, txpc, recvBy>>

\* select: both receives are pending when the 30 s sleep ends
ClientSelectKeepalive(c) ==
  /\ cpc[c] = "select" /\ cmdTask[c].st = "wait"
  /\ errTask[c].st = IF errRxClosed[c] THEN "idle" ELSE "wait"
  /\ orphanCmd' = Orphaned(orphanCmd)
  /\ orphanErr' = IF errRxClosed[c] THEN orphanErr ELSE Orphaned(orphanErr)
  /\ cpc' = [cpc EXCEPT ![c] = "keepalive"]
  /\ cmdTask' = [cmdTask EXCEPT ![c] = TaskIdle]
  /\ errTask' = [errTask EXCEPT ![c] = TaskIdle]
  /\ seqLog' = [seqLog EXCEPT ![c] = <<>>]
  /\ UNCHANGED <<routerSide, errRxClosed, storeVars, outputQ, faultQ, offIdx,
                 offByFault, discarded, failed, rxVars, resp, txpc, recvBy>>

\* ctx.read_holding_registers(40070, 1) succeeds
ClientKeepaliveOk(c) ==
  /\ cpc[c] = "keepalive"
  /\ NewRound(c)
  /\ failed' = [failed EXCEPT ![c] = FALSE]
  /\ UNCHANGED <<routerSide, errRxClosed, storeVars, outputQ, faultQ, offIdx,
                 orphanCmd, orphanErr, offByFault, discarded, seqLog,
                 rxVars, resp, txpc, recvBy>>

\* mutant: a failed keep-alive read is ignored and the client selects again
ClientKeepaliveFail_Ignore(c) ==
  /\ cpc[c] = "keepalive"
  /\ NewRound(c)
  /\ failed' = [failed EXCEPT ![c] = TRUE]
  /\ UNCHANGED <<routerSide, errRxClosed, storeVars, outputQ, faultQ, offIdx,
                 orphanCmd, orphanErr, offByFault, discarded, seqLog,
                 rxVars, resp, txpc, recvBy>>

\* ctx.read_holding_registers(40070, 1) fails: break 'inner
ClientKeepaliveFail(c) ==
  /\ cpc[c] = "keepalive"
  /\ cpc' = [cpc EXCEPT ![c] = "connect"]
  /\ failed' = [failed EXCEPT ![c] = TRUE]
  /\ UNCHANGED <<routerSide, errRxClosed, storeVars, outputQ, faultQ, offIdx,
                 cmdTask, errTask, orphanCmd, orphanErr, offByFault, discarded,
                 seqLog, rxVars, resp, txpc, recvBy>>

\* ctx.write_single_register(reg, val) of writes[offIdx] succeeds, then the
\* 50 ms sleep; after the last one the sequence returns Ok and the client
\* selects again
ClientOffWriteOk(c) ==
  /\ cpc[c] = "off"
  /\ seqLog' = [seqLog EXCEPT ![c] =
       Append(@, [reg |-> OffWrites[offIdx[c]].reg,
                  val |-> OffWrites[offIdx[c]].val, ok |-> TRUE])]
  /\ failed' = [failed EXCEPT ![c] = FALSE]
  /\ IF offIdx[c] < Len(OffWrites)
     THEN /\ offIdx' = [offIdx EXCEPT ![c] = @ + 1]
          /\ UNCHANGED <<cpc, cmdTask, errTask>>
     ELSE /\ NewRound(c)
          /\ UNCHANGED offIdx
  /\ UNCHANGED <<routerSide, errRxClosed, storeVars, outputQ, faultQ, orphanCmd,
                 orphanErr, offByFault, discarded, rxVars, resp, txpc, recvBy>>

\* mutant: the result of a failed write is ignored and the loop goes on
ClientOffWriteFail_Continue(c) ==
  /\ cpc[c] = "off"
  /\ seqLog' = [seqLog EXCEPT ![c] =
       Append(@, [reg |-> OffWrites[offIdx[c]].reg,
                  val |-> OffWrites[offIdx[c]].val, ok |-> FALSE])]
  /\ failed' = [failed EXCEPT ![c] = TRUE]
  /\ IF offIdx[c] < Len(OffWrites)
     THEN /\ offIdx' = [offIdx EXCEPT ![c] = @ + 1]
          /\ UNCHANGED <<cpc, cmdTask, errTask>>
     ELSE /\ NewRound(c)
          /\ UNCHANGED offIdx
  /\ UNCHANGED <<routerSide, errRxClosed, storeVars, outputQ, faultQ, orphanCmd,
                 orphanErr, offByFault, discarded, rxVars, resp, txpc, recvBy>>

\* ctx.write_single_register(reg, val) fails: `?` leaves the sequence, the
\* caller breaks 'inner
ClientOffWriteFail(c) ==
  /\ cpc[c] = "off"
  /\ seqLog' = [seqLog EXCEPT ![c] =
       Append(@, [reg |-> OffWrites[offIdx[c]].reg,
                  val |-> OffWrites[offIdx[c]].val, ok |-> FALSE])]
  /\ failed' = [failed EXCEPT ![c] = TRUE]
  /\ cpc' = [cpc EXCEPT ![c] = "connect"]
  /\ UNCHANGED <<routerSide, errRxClosed, storeVars, outputQ, faultQ, offIdx,
                 cmdTask, errTask, orphanCmd, orphanErr, offByFault, discarded,
                 rxVars, resp, txpc, recvBy>>

(***************************************************************************)
(* CAN transmitter: tx_task (can.rs)                                       *)
(***************************************************************************)
\* output_rx.recv() returns a command; StandardId::new(..).expect(..) panics
\* for an identifier that is no standard identifier; otherwise the frame is
\* written and Quit ends the loop
CanTxRecv ==
  /\ txpc = "recv" /\ outputQ # <<>>
  /\ outputQ' = Tail(outputQ)
  /\ txpc' = IF ~IsSome(StandardIdNew(TxCanId(Head(outputQ)))) THEN "panicked"
             ELSE IF Head(outputQ) = "Quit" THEN "done"
             ELSE "recv"
  /\ UNCHANGED <<routerSide, storeVars, faultQ, clientVars, clientHist, rxVars, resp,
                 recvBy>>

(***************************************************************************)
(* Indicator Adapter: output side (gpio::output_task(error_rx3, output_rx4)) *)
(***************************************************************************)
GpioOutRecvCmd ==
  /\ outputQ # <<>>
  /\ outputQ' = Tail(outputQ)
  /\ UNCHANGED <<routerSide, storeVars, faultQ, clientVars, clientHist, rxVars, resp,
                 txpc, recvBy>>

GpioOutRecvFault ==
  /\ faultQ # <<>>
  /\ faultQ' = Tail(faultQ)
  /\ UNCHANGED <<routerSide, storeVars, outputQ, clientVars, clientHist, rxVars, resp,
                 txpc, recvBy>>

(***************************************************************************)
(* Modbus Register Server: BmsModbusService::call (modbus_server.rs)       *)
(***************************************************************************)
\* mutant: a poisoned lock is answered with ServerDeviceBusy
ServerDeviceFailure_Busy(u, fn, addr, val, vals) ==
  [unit |-> u, fn |-> fn, addr |-> addr, val |-> val, vals |-> vals,
   ok |-> FALSE, exc |-> "ServerDeviceBusy", out |-> <<>>]

\* data_lock.read() / write() returned Err (the lock is poisoned):
\* map_err(|_| ExceptionCode::ServerDeviceFailure)?
ServerDeviceFailure(u, fn, addr, val, vals) ==
  [unit |-> u, fn |-> fn, addr |-> addr, val |-> val, vals |-> vals,
   ok |-> FALSE, exc |-> "ServerDeviceFailure", out |-> <<>>]

\* Request::WriteSingleRegister(addr, value) on unit u's server: under the
\* write lock set_register is applied to the store; Ok echoes the request,
\* Err answers the exception.  The service holds no sender of the input
\* channel and sends nothing.
ServerWriteSingle(u, addr, value) ==
  /\ IF u \in poisoned
     THEN /\ resp' = ServerDeviceFailure(u, "WriteSingleRegister", addr, value,
                                         <<>>)
          /\ UNCHANGED store
     ELSE
     LET r == SetRegister(GetOrInsertDefault(store[u]), addr, value) IN
     /\ store' = [store EXCEPT ![u] = Some(r.data)]
     /\ resp' = [unit |-> u, fn |-> "WriteSingleRegister", addr |-> addr,
                 val |-> value, vals |-> <<>>, ok |-> r.ok, exc |-> r.exc,
                 out |-> IF r.ok THEN <<addr, value>> ELSE <<>>]
  /\ UNCHANGED <<routerSide, outputQ, faultQ, clientVars, clientHist, rxVars,
                 txpc, recvBy>>

\* Request::WriteMultipleRegisters(addr, values): under the write lock the
\* loop of set_register calls; Ok answers (addr, values.len()).  A panic
\* leaves the request without an answer.
ServerWriteMultiple(u, addr, values) ==
  /\ IF u \in poisoned
     THEN /\ resp' = ServerDeviceFailure(u, "WriteMultipleRegisters", addr, 0,
                                         values)
          /\ UNCHANGED store
     ELSE
     \E r \in WriteLoop(GetOrInsertDefault(store[u]), addr, values, 0) :
       /\ store' = [store EXCEPT ![u] = Some(r.data)]
       /\ resp' = [unit |-> u, fn |-> "WriteMultipleRegisters", addr |-> addr,
                   val |-> 0, vals |-> values, ok |-> r.ok,
                   exc |-> IF r.panic THEN "panic" ELSE r.exc,
                   out |-> IF r.ok THEN <<addr, Len(values)>> ELSE <<>>]
  /\ UNCHANGED <<routerSide, outputQ, faultQ, clientVars, clientHist, rxVars,
                 txpc, recvBy>>

\* Request::ReadHoldingRegisters(addr, cnt) / ReadInputRegisters(addr, cnt):
\* under the read lock, the registers of Some(data) or cnt zeros for None
ServerRead(u, fn, addr, cnt) ==
  /\ IF u \in poisoned
     THEN resp' = ServerDeviceFailure(u, fn, addr, cnt, <<>>)
     ELSE
     \E r \in ReadRegisters(store[u], addr, cnt) :
       resp' = [unit |-> u, fn |-> fn, addr |-> addr, val |-> cnt,
                vals |-> <<>>, ok |-> ~r.panic,
                exc |-> IF r.panic THEN "panic" ELSE "", out |-> r.regs]
  /\ UNCHANGED <<routerSide, storeVars, outputQ, faultQ, clientVars,
                 clientHist, rxVars, txpc, recvBy>>

ServerReadHolding(u, addr, cnt) ==
  ServerRead(u, "ReadHoldingRegisters", addr, cnt)

ServerReadInput(u, addr, cnt) ==
  ServerRead(u, "ReadInputRegisters", addr, cnt)

(***************************************************************************)
(* The channels' senders go away                                           *)
(***************************************************************************)
\* the command channel has lost its only sender, the router's output_tx
OutputClosed == rpc \in {"done", "failed"}

\* the fault channel has lost both senders, the receive tasks' error_tx
FaultClosed == rxAlive = {}

\* input_rx.iter() ends: every sender of the input channel is gone and the
\* channel is empty; the router returns Ok(()) and drops output_tx
RouterExit ==
  /\ rpc = "recv" /\ inputQ = <<>>
  /\ rpc' = "done"
  /\ UNCHANGED plantVars
  /\ UNCHANGED <<chanVars, storeVars, rmsg, rcf1, rcf2, resetVars, histVars>>

\* CanSocket::open or socket.read_frame() fails in unit u's receive task:
\* the task returns Err and drops error_tx
RxTaskExit(u) ==
  /\ u \in rxAlive
  /\ rxAlive' = rxAlive \ {u}
  /\ UNCHANGED <<routerSide, storeVars, outputQ, faultQ, clientVars,
                 clientHist, nFrames, faultsEmitted, lastRx, rxCount, txpc,
                 recvBy, resp>>

\* rx.recv() of this round's receive on output_rx returns Err
TaskRecvCmdClosed(c) ==
  /\ cmdTask[c].st = "wait" /\ outputQ = <<>> /\ OutputClosed
  /\ cmdTask' = [cmdTask EXCEPT ![c] = TaskErr]
  /\ UNCHANGED <<routerSide, errRxClosed, storeVars, outputQ, faultQ, cpc,
                 offIdx, errTask, orphanCmd, orphanErr, clientHist, rxVars,
                 resp, txpc, recvBy>>

\* rx.recv() of this round's receive on error_rx returns Err
TaskRecvFaultClosed(c) ==
  /\ errTask[c].st = "wait" /\ faultQ = <<>> /\ FaultClosed
  /\ errTask' = [errTask EXCEPT ![c] = TaskErr]
  /\ UNCHANGED <<routerSide, errRxClosed, storeVars, outputQ, faultQ, cpc,
                 offIdx, cmdTask, orphanCmd, orphanErr, clientHist, rxVars,
                 resp, txpc, recvBy>>

\* a detached receive on output_rx returns Err: nobody reads the result
OrphanRecvCmdClosed ==
  /\ orphanCmd > 0 /\ outputQ = <<>> /\ OutputClosed
  /\ orphanCmd' = orphanCmd - 1
  /\ UNCHANGED <<routerSide, errRxClosed, storeVars, outputQ, faultQ, cpc,
                 offIdx, cmdTask, errTask, orphanErr, clientHist, rxVars,
                 resp, txpc, recvBy>>

\* a detached receive on error_rx returns Err: nobody reads the result
OrphanRecvFaultClosed ==
  /\ orphanErr > 0 /\ faultQ = <<>> /\ FaultClosed
  /\ orphanErr' = orphanErr - 1
  /\ UNCHANGED <<routerSide, errRxClosed, storeVars, outputQ, faultQ, cpc,
                 offIdx, cmdTask, errTask, orphanCmd, clientHist, rxVars,
                 resp, txpc, recvBy>>

\* mutant: a closed command channel makes the client reconnect
ClientSelectCmdClosed_Reconnect(c) ==
  /\ cpc[c] = "select" /\ cmdTask[c].st = "err"
  /\ cpc' = [cpc EXCEPT ![c] = "connect"]
  /\ cmdTask' = [cmdTask EXCEPT ![c] = TaskIdle]
  /\ errTask' = [errTask EXCEPT ![c] = TaskIdle]
  /\ orphanErr' = IF errTask[c].st = "wait" THEN Orphaned(orphanErr) ELSE orphanErr
  /\ discarded' = IF errTask[c].st = "got" THEN discarded + 1 ELSE discarded
  /\ UNCHANGED <<routerSide, errRxClosed, storeVars, outputQ, faultQ, offIdx,
                 orphanCmd, offByFault, seqLog, failed, rxVars, resp, txpc,
                 recvBy>>

\* select (biased): the output_rx branch completed with Ok(Err(e)):
\* return Ok(()).  The error_rx receive of the round is dropped like in
\* every other round.
ClientSelectCmdClosed(c) ==
  /\ cpc[c] = "select" /\ cmdTask[c].st = "err"
  /\ cpc' = [cpc EXCEPT ![c] = "done"]
  /\ cmdTask' = [cmdTask EXCEPT ![c] = TaskIdle]
  /\ errTask' = [errTask EXCEPT ![c] = TaskIdle]
  /\ orphanErr' = IF errTask[c].st = "wait" THEN Orphaned(orphanErr) ELSE orphanErr
  /\ discarded' = IF errTask[c].st = "got" THEN discarded + 1 ELSE discarded
  /\ UNCHANGED <<routerSide, errRxClosed, storeVars, outputQ, faultQ, offIdx,
                 orphanCmd, offByFault, seqLog, failed, rxVars, resp, txpc,
                 recvBy>>

\* select (biased): the output_rx branch is pending, the error_rx branch
\* completed with Ok(Err(e)): error_rx_closed = true, and the inner loop
\* goes on with the next select round
ClientSelectFaultClosed(c) ==
  /\ cpc[c] = "select" /\ cmdTask[c].st = "wait" /\ errTask[c].st = "err"
  /\ errRxClosed' = [errRxClosed EXCEPT ![c] = TRUE]
  /\ orphanCmd' = Orphaned(orphanCmd)
  /\ cmdTask' = [cmdTask EXCEPT ![c] = TaskWait]
  /\ errTask' = [errTask EXCEPT ![c] = TaskIdle]
  /\ seqLog' = [seqLog EXCEPT ![c] = <<>>]
  /\ UNCHANGED <<routerSide, storeVars, outputQ, faultQ, cpc, offIdx,
                 orphanErr, offByFault, discarded, failed, rxVars, resp, txpc,
                 recvBy>>

ClientNext(c) ==
  \/ ClientConnectOk(c)
  \/ ClientConnectFail(c)
  \/ ClientBackoffDone(c)
  \/ TaskRecvCmd(c)
  \/ TaskRecvFault(c)
  \/ ClientSelectCmd(c)
  \/ ClientSelectFault(c)
  \/ ClientSelectKeepalive(c)
  \/ ClientKeepaliveOk(c)
  \/ ClientKeepaliveFail(c)
  \/ ClientOffWriteOk(c)
  \/ ClientOffWriteFail(c)

\* the CAN tasks and the Inverter Clients
PlantNext ==
  \/ \E u \in Units : \E frame \in RxFrames(u) : RxFrame(u, frame)
  \/ \E c \in Clients : ClientNext(c)
  \/ OrphanRecvCmd
  \/ OrphanRecvFault
  \/ CanTxRecv

\* the output side of the Indicator Adapter
IndicatorNext ==
  \/ GpioOutRecvCmd
  \/ GpioOutRecvFault

RouterSteps ==
  \/ RouterRecv
  \/ RouterRead1
  \/ RouterRead2
  \/ RouterWrite1
  \/ RouterWrite2
  \/ RouterSpawn
  \/ RouterSend
  \/ ResetWrite1
  \/ ResetWrite2

\* the router, its unfreeze thread and the command sources alone
RouterNext ==
  \/ \E cmd \in SystemCommand : GpioInput(MaxCmds, cmd)
  \/ RouterSteps

SpecRouter == Init /\ [][RouterNext]_vars

\* the steps of the router task (tokio::spawn, main.rs 251) and of an
\* unfreeze thread (std::thread::spawn, main.rs 111)
RouterTask ==
  \/ RouterRecv \/ RouterRead1 \/ RouterRead2
  \/ RouterWrite1 \/ RouterWrite2 \/ RouterSpawn \/ RouterSend

ResetThread == ResetWrite1 \/ ResetWrite2

\* the router and its unfreeze thread under a fair scheduler: the router's
\* loop holds no await, so that the task keeps the worker thread it runs on;
\* the unfreeze is a thread of its own whose sleep ends; the operating system
\* runs a runnable thread.  The command sources are free to stay silent.
SpecRouterFair ==
  Init /\ [][RouterNext]_vars /\ WF_vars(RouterTask) /\ WF_vars(ResetThread)

\* the gateway without the output side of the Indicator Adapter
CoreNext ==
  \/ \E cmd \in SystemCommand : GpioInput(MaxSysCmds, cmd)
  \/ RouterSteps
  \/ PlantNext

SpecCore == Init /\ [][CoreNext]_vars

\* the type-2 frame with error1 = 1 for the receive task of bms_id
FaultFrame(bms_id) ==
  [id |-> IF bms_id = 1 THEN 45569 ELSE 45570,
   data |-> <<0, 0, 0, 0, 0, 0, 1, 0>>]

\* what the router, the receive tasks and the clients do once a channel has
\* lost its senders
ClosedNext ==
  \/ RouterExit
  \/ \E u \in Units : RxTaskExit(u)
  \/ \E c \in Clients :
       \/ TaskRecvCmdClosed(c)
       \/ TaskRecvFaultClosed(c)
       \/ ClientSelectCmdClosed(c)
       \/ ClientSelectFaultClosed(c)
  \/ OrphanRecvCmdClosed
  \/ OrphanRecvFaultClosed

\* the router, the receive tasks and the Inverter Clients, with tasks that
\* end
CloseNext ==
  \/ GpioInput(MaxSysCmds, "Off")
  \/ RouterSteps
  \/ \E u \in Units : RxFrame(u, FaultFrame(u))
  \/ \E c \in Clients : ClientNext(c)
  \/ OrphanRecvCmd
  \/ OrphanRecvFault
  \/ ClosedNext

SpecClose == Init /\ [][CloseNext]_vars

(***************************************************************************)
(* The store locks: the order in which each task takes and drops them      *)
(***************************************************************************)
\* one command in the router: the two read blocks, and for an accepted
\* command the two write blocks
RouterRounds ==
  { <<Acq("read", 1), Rel(1), Acq("read", 2), Rel(2)>>,
    <<Acq("read", 1), Rel(1), Acq("read", 2), Rel(2),
      Acq("write", 1), Rel(1), Acq("write", 2), Rel(2)>> }

\* reset_control_frozen: the two write blocks
ResetRounds == { <<Acq("write", 1), Rel(1), Acq("write", 2), Rel(2)>> }

\* rx_task of unit u: one frame under bms_data.write()
RxRounds(u) == { <<Acq("write", u), Rel(u)>> }

\* the Register Server of unit u: one request under data_lock.read() or
\* data_lock.write()
ServerRounds(u) == { <<Acq("read", u), Rel(u)>>, <<Acq("write", u), Rel(u)>> }

\* mutant: the router keeps unit 1's write guard while it takes unit 2's
LockRounds_Nested(t) ==
  CASE t = "router" ->
         { <<Acq("read", 1), Rel(1), Acq("read", 2), Rel(2)>>,
           <<Acq("read", 1), Rel(1), Acq("read", 2), Rel(2),
             Acq("write", 1), Acq("write", 2), Rel(2), Rel(1)>> }
    [] t = "reset" -> ResetRounds
    [] t = "rx1" -> RxRounds(1)
    [] t = "rx2" -> RxRounds(2)
    [] t = "server1" -> ServerRounds(1)
    [] t = "server2" -> ServerRounds(2)

\* the lock operations of one round of task t
LockRounds(t) ==
  CASE t = "router" -> RouterRounds
    [] t = "reset" -> ResetRounds
    [] t = "rx1" -> RxRounds(1)
    [] t = "rx2" -> RxRounds(2)
    [] t = "server1" -> ServerRounds(1)
    [] t = "server2" -> ServerRounds(2)

\* the next lock operation of task t
LockOp(t) == lrun[t].script[lrun[t].idx]

\* task t is in a round and its next operation is a lock.read()/lock.write()
AtAcquire(t) == lrun[t].script # <<>> /\ LockOp(t).op = "acq"

AtRelease(t) == lrun[t].script # <<>> /\ LockOp(t).op = "rel"

\* the locks task t holds a guard of
Holds(t) == {u \in Units : held[u].writer = t \/ t \in held[u].readers}

\* RwLock: a write guard excludes every other guard, read guards share
Available(m, u) ==
  /\ held[u].writer = "none"
  /\ m = "write" => held[u].readers = {}

\* after the operation at idx: the next one, or the end of the round
LockAdvance(t) ==
  IF lrun[t].idx = Len(lrun[t].script) THEN LockIdle
  ELSE [lrun[t] EXCEPT !.idx = @ + 1]

nonLockVars ==
  <<storeVars, chanVars, routerVars, resetVars, histVars, clientVars,
    clientHist, rxVars, txpc, recvBy, resp, poisoned, arrived>>

\* task t enters a round: a command, the end of the sleep, a frame, a request
LockBegin(t) ==
  /\ lrun[t] = LockIdle
  /\ \E sc \in LockRounds(t) : lrun' = [lrun EXCEPT ![t] = [script |-> sc, idx |-> 1]]
  /\ UNCHANGED <<held, nonLockVars>>

\* lock.read() / lock.write() returns the guard; the call blocks while the
\* lock is not available
LockAcquire(t) ==
  /\ AtAcquire(t)
  /\ Available(LockOp(t).mode, LockOp(t).unit)
  /\ held' = [held EXCEPT ![LockOp(t).unit] =
       IF LockOp(t).mode = "write" THEN [@ EXCEPT !.writer = t]
       ELSE [@ EXCEPT !.readers = @ \cup {t}]]
  /\ lrun' = [lrun EXCEPT ![t] = LockAdvance(t)]
  /\ UNCHANGED nonLockVars

\* the guard is dropped at the end of its block
LockRelease(t) ==
  /\ AtRelease(t)
  /\ held' = [held EXCEPT ![LockOp(t).unit] =
       [writer |-> IF @.writer = t THEN "none" ELSE @.writer,
        readers |-> @.readers \ {t}]]
  /\ lrun' = [lrun EXCEPT ![t] = LockAdvance(t)]
  /\ UNCHANGED nonLockVars

LockNext ==
  \E t \in LockTasks : LockBegin(t) \/ LockAcquire(t) \/ LockRelease(t)

SpecLock == Init /\ [][LockNext]_vars

\* a fair scheduler and a fair lock: a task inside a block reaches the end of
\* the block, and a task whose lock becomes available again and again is
\* granted it
SpecLockFair ==
  /\ SpecLock
  /\ \A t \in LockTasks : WF_vars(LockRelease(t)) /\ SF_vars(LockAcquire(t))

(***************************************************************************)
(* Poisoned store locks                                                    *)
(***************************************************************************)
\* a thread panics while it holds the write lock of unit u: from then on
\* read() and write() on that RwLock return Err(PoisonError)
LockPoison(u) ==
  /\ u \notin poisoned
  /\ poisoned' = poisoned \cup {u}
  /\ UNCHANGED <<storeVars, chanVars, routerVars, resetVars, histVars,
                 clientVars, clientHist, rxVars, txpc, recvBy, resp, arrived,
                 held, lrun>>

\* the requests sent to the Register Server of unit u here
PoisonRequests(u) ==
  \/ ServerWriteSingle(u, REG_ON, 255)
  \/ ServerWriteMultiple(u, REG_ON, <<253, 254>>)
  \/ ServerReadHolding(u, 1, 12)
  \/ ServerReadInput(u, 1, 12)

\* the Register Servers over locks that get poisoned
PoisonServerNext ==
  \/ \E u \in Units : LockPoison(u)
  \/ \E u \in Units : PoisonRequests(u)

SpecPoisonServer == Init /\ [][PoisonServerNext]_vars

\* the router, its unfreeze thread and the receive tasks over locks that get
\* poisoned
PoisonNext ==
  \/ \E u \in Units : LockPoison(u)
  \/ \E cmd \in {"Off", "On"} : GpioInput(MaxPoisonCmds, cmd)
  \/ RouterSteps
  \/ \E u \in Units : RxTaskStep(MaxCanFrames, u, FaultFrame(u))

SpecPoison == Init /\ [][PoisonNext]_vars

\* the whole system
Next ==
  \/ CoreNext
  \/ IndicatorNext

Spec == Init /\ [][Next]_vars

\* read requests to the two Register Servers
ReadNext ==
  \E u \in Units : \E q \in SrvReads :
    \/ ServerReadHolding(u, q[1], q[2])
    \/ ServerReadInput(u, q[1], q[2])

\* the telemetry path: the two CAN receive tasks and the register reads
CanNext ==
  \/ \E u \in Units : \E frame \in CanFrames(u) :
       RxTaskStep(MaxCanFrames, u, frame)
  \/ ReadNext

SpecCan == Init /\ [][CanNext]_vars

\* the two Register Servers answering write and read requests
ServerNext ==
  \/ \E u \in Units : \E addr \in SrvAddrs : \E value \in SrvVals :
       ServerWriteSingle(u, addr, value)
  \/ \E u \in Units : \E addr \in SrvMultiAddrs : \E values \in SrvMultiVals :
       ServerWriteMultiple(u, addr, values)
  \/ ReadNext

SpecServer == Init /\ [][ServerNext]_vars

\* the same servers over stores that were never initialized
SpecUninit == InitUninit /\ [][ServerNext]_vars

\* the frames given to the receive task of bms_id next to the other writers:
\* the type-1 frame and the type-2 frame with error1 set
StoreFrames(bms_id) ==
  {f \in CanFrames(bms_id) : Len(f.data) = 8 /\ f.data[7] # 0}

\* every task that writes to the stores: the receive tasks, the Register
\* Servers' write requests, the router and its unfreeze thread
StoreNext ==
  \/ \E u \in Units : \E frame \in StoreFrames(u) :
       RxTaskStep(MaxCanFrames, u, frame)
  \/ \E u \in Units : \E addr \in {REG_ON, REG_QUIT} :
       ServerWriteSingle(u, addr, 1)
  \/ \E u \in Units : ServerWriteMultiple(u, REG_ON, <<2, 3>>)
  \/ GpioInput(MaxSysCmds, "Off")
  \/ RouterSteps

SpecStore == Init /\ [][StoreNext]_vars

(***************************************************************************)
(* Properties of the Command Router                                        *)
(***************************************************************************)
\* commands accepted before the router decided on the j-th command
NAccBefore(j) == IF j = 1 THEN 0 ELSE checked[j - 1].nAcc

\* the commands the router accepted, in the order it decided on them
AcceptedCmds ==
  LET RECURSIVE Acc(_)
      Acc(j) == IF j = 0 THEN <<>>
                ELSE IF checked[j].acc THEN Append(Acc(j - 1), checked[j].cmd)
                ELSE Acc(j - 1)
  IN Acc(Len(checked))

IsPrefix(s, t) == Len(s) <= Len(t) /\ \A i \in 1..Len(s) : s[i] = t[i]

\* what is forwarded is what was accepted, at most the last accept pending
ForwardedAreAccepted ==
  /\ IsPrefix(forwarded, AcceptedCmds)
  /\ Len(AcceptedCmds) - Len(forwarded) <= 1
  /\ (rpc = "recv" => forwarded = AcceptedCmds)

\* control_frozen is true on both units from the end of the accept (both
\* writes done) until the unfreeze thread's first write, and false on both
\* units once every accepted command's unfreeze has finished
FrozenForTheWindow ==
  /\ ((rpc = "spawn" \/ resetSleep > 0) => Frozen(store, 1) /\ Frozen(store, 2))
  /\ (resetsDone = NumAccepted => Idle)

\* C1 as stated: of the commands that reach the router (are taken from the
\* input channel) starting from Idle and before the unfreeze of an accepted
\* command has run, exactly the first is forwarded; control_frozen is true on
\* both units from the accept until the unfreeze and false afterwards.
C1_DebounceAtReceive ==
  /\ \A j \in 1..Len(checked) :
        /\ (checked[j].deqIdle => checked[j].acc)
        /\ (checked[j].deqEpoch < NAccBefore(j) => ~checked[j].acc)
  /\ ForwardedAreAccepted
  /\ FrozenForTheWindow

\* C1 (amended): of the commands whose freeze check (the two control_frozen
\* reads) starts in Idle for the first and is completed before the unfreeze
\* of an accepted command has finished for the others, exactly the first is
\* forwarded; control_frozen is true on both units from the accept until the
\* unfreeze and false on both units afterwards.
C1_Debounce ==
  /\ \A j \in 1..Len(checked) :
        /\ (checked[j].chkIdle => checked[j].acc)
        /\ (checked[j].chkEpoch < NAccBefore(j) => ~checked[j].acc)
  /\ ForwardedAreAccepted
  /\ FrozenForTheWindow

\* three commands checked within one window: the first forwarded, two dropped,
\* and the unfreeze has then put both units back to unfrozen
C1_Witness ==
  /\ Len(checked) = 3 /\ checked[1].acc /\ ~checked[2].acc /\ ~checked[3].acc
  /\ checked[3].chkEpoch = 0
  /\ forwarded = <<checked[1].cmd>>
  /\ resetsDone = 1 /\ Idle

\* C6: between any two commands the router forwards, the unfreeze scheduled
\* for the earlier one has completed: the k-th forward happens only after
\* k - 1 unfreeze threads have finished.
C6_OneForwardPerWindow == Len(forwarded) <= resetsDone + 1

\* two commands forwarded, the first one's unfreeze finished in between
C6_Witness == Len(forwarded) = 2 /\ resetsDone >= 1

\* C7 as stated: a command the router receives (takes from the input channel)
\* while either unit is frozen is never forwarded, and the forwarded commands
\* never outnumber the commands received while both units were unfrozen.
C7_DroppedAtReceive ==
  /\ \A j \in 1..Len(checked) : ~checked[j].deqIdle => ~checked[j].acc
  /\ Len(forwarded) <= Cardinality({j \in 1..Len(checked) : checked[j].deqIdle})

\* C7 (amended): a command for which either unit's control_frozen is true
\* when the router completes its freeze check is never forwarded, at once or
\* later; the forwarded commands are exactly the accepted ones, so they never
\* outnumber the commands checked while both units were unfrozen.
C7_DroppedNeverForwarded ==
  /\ \A j \in 1..Len(checked) : ~checked[j].chkEndIdle => ~checked[j].acc
  /\ ForwardedAreAccepted
  /\ Len(forwarded) <=
       Cardinality({j \in 1..Len(checked) : checked[j].chkEndIdle})

\* a command was dropped while frozen; the window is over, the router has
\* nothing left to do, and the dropped command was not forwarded
C7_Witness ==
  /\ \E j \in 1..Len(checked) : ~checked[j].acc /\ ~checked[j].chkEndIdle
  /\ resetsDone = NumAccepted /\ rpc = "recv" /\ inputQ = <<>>
  /\ Len(forwarded) < Len(checked)

(***************************************************************************)
(* Properties of the fault path and of the Inverter Clients                *)
(***************************************************************************)
\* no FaultSignal is on the fault channel or held by a client's receive
NoFaultInFlight ==
  faultQ = <<>> /\ \A c \in Clients : errTask[c].st # "got"

\* C2: once unit N's receive task has emitted a FaultSignal and no FaultSignal
\* is left in flight, unit N's paired Inverter Client has started an OFF
\* sequence for a fault.
C2_FaultReachesPairedClient ==
  \A u \in Units :
    (faultsEmitted[u] > 0 /\ NoFaultInFlight) => offByFault[u] > 0

\* the client's select is at the point where only its error_rx receive has a
\* result
FaultReady(c) ==
  cpc[c] = "select" /\ cmdTask[c].st = "wait" /\ errTask[c].st = "got"

\* C3: a client whose select has only the FaultSignal ready can start the OFF
\* sequence whatever control_frozen is on either unit, and when it handles the
\* FaultSignal it starts the OFF sequence; no step of the Command Router or of
\* its unfreeze thread touches the fault channel, and what the router handles
\* are SystemCommands only.
C3_FaultBypass ==
  /\ [](\A c \in Clients : FaultReady(c) => ENABLED ClientSelectFault(c))
  /\ [][\A c \in Clients :
          (FaultReady(c) /\ cmdTask'[c].st # "got" /\ errTask'[c].st # "got")
            => (cpc'[c] = "off" /\ offIdx'[c] = 1
                /\ offByFault'[c] = offByFault[c] + 1)]_vars
  /\ [][(routerVars' # routerVars \/ resetVars' # resetVars)
          => (faultQ' = faultQ /\ errTask' = errTask)]_vars
  /\ [](rmsg \in SystemCommand /\ \A i \in 1..Len(inputQ) : inputQ[i] \in SystemCommand)

\* a client that received no command is at the first write of an OFF sequence
\* started for a FaultSignal while both units are frozen
C3_Witness ==
  \E c \in Clients :
    /\ cpc[c] = "off" /\ offIdx[c] = 1 /\ offByFault[c] = 1 /\ recvBy[c] = 0
    /\ Frozen(store, 1) /\ Frozen(store, 2)

\* C4: no message a client's receive has removed from the fault channel or
\* from the command channel went unhandled.
C4_NothingDiscarded == discarded = 0

\* C5: every command the router has forwarded was received by each Inverter
\* Client or can still be received by it (it is on the output channel or held
\* by the client's current receive).
C5_DeliveredToEveryClient ==
  \A c \in Clients :
    Len(forwarded) <=
      recvBy[c] + (IF cmdTask[c].st = "got" THEN 1 ELSE 0) + Len(outputQ)

\* C8: a Register Server's answer to a successful write to register 21 or 22
\* comes with one more SystemCommand on the router's input channel; any other
\* answer leaves the input channel as it was.
C8_WriteEmitsCommand ==
  [][resp' # resp =>
       IF /\ resp'.ok /\ resp'.addr \in {REG_ON, REG_QUIT}
          /\ resp'.fn \in {"WriteSingleRegister", "WriteMultipleRegisters"}
       THEN /\ Len(inputQ') = Len(inputQ) + 1
            /\ inputQ'[Len(inputQ')] \in SystemCommand
       ELSE inputQ' = inputQ]_vars

ClientRunning == {"connect", "backoff", "select", "keepalive", "off"}

\* C10: a client whose latest socket operation failed is Disconnected; a
\* failed connect is followed by the backoff and the backoff by a connect
\* attempt; a failed OFF-sequence write or keepalive read takes the client to
\* a connect attempt; a client stops running only from its select, never from
\* a socket operation.
C10_ClientLifecycle ==
  /\ [](\A c \in Clients :
          /\ cpc[c] \in ClientRunning
          /\ (failed[c] => cpc[c] \in {"connect", "backoff"})
          /\ (cpc[c] = "backoff" => ENABLED ClientBackoffDone(c))
          /\ (cpc[c] = "connect" =>
                ENABLED ClientConnectOk(c) /\ ENABLED ClientConnectFail(c)))
  /\ [][\A c \in Clients :
          /\ (cpc[c] = "connect" /\ cpc'[c] # "connect")
               => cpc'[c] = (IF failed'[c] THEN "backoff" ELSE "select")
          /\ (cpc[c] = "backoff" /\ cpc'[c] # "backoff") => cpc'[c] = "connect"
          /\ (cpc[c] \in {"off", "keepalive"} /\ failed'[c])
               => cpc'[c] = "connect"
          /\ (cpc[c] \in ClientRunning /\ cpc'[c] \notin ClientRunning)
               => (cpc[c] = "select" /\ failed'[c] = failed[c])]_vars

\* one client is back at a connect attempt after a failed write of its OFF
\* sequence, the other is in the backoff after a failed connect
C10_Witness ==
  \E c, d \in Clients :
    /\ cpc[c] = "connect" /\ failed[c] /\ seqLog[c] # <<>>
    /\ cpc[d] = "backoff" /\ failed[d]

(***************************************************************************)
(* Properties of the Inverter Client when a channel is closed              *)
(***************************************************************************)
\* client c's select takes the Err its receive on output_rx returned
ObservesCmdClosed(c) ==
  cpc[c] = "select" /\ cmdTask[c].st = "err" /\ cmdTask'[c].st # "err"

\* client c's select takes the Err its receive on error_rx returned
ObservesFaultClosed(c) ==
  /\ cpc[c] = "select" /\ cmdTask[c].st = "wait"
  /\ errTask[c].st = "err" /\ errTask'[c].st # "err"

\* C11 as stated: a client that finds its command channel or its fault
\* channel closed terminates cleanly; it reports no error, does not reconnect
\* and does not keep running.
C11_ClosedChannelEndsClient ==
  [][\A c \in Clients :
       (ObservesCmdClosed(c) \/ ObservesFaultClosed(c))
         => cpc'[c] = "done" /\ failed'[c] = failed[c]]_vars

\* C11 (amended): a connected client that finds the command channel closed
\* returns success, without an error and without reconnecting, and takes no
\* step afterwards; one that finds the fault channel closed only sets
\* error_rx_closed and goes on selecting on the command channel and the
\* keep-alive timer; nothing but the closed command channel ends a client.
C11_ClosedCommandEndsClient ==
  [][\A c \in Clients :
       /\ ObservesCmdClosed(c)
            => cpc'[c] = "done" /\ failed'[c] = failed[c]
       /\ ObservesFaultClosed(c)
            => /\ cpc'[c] = "select" /\ errRxClosed'[c]
               /\ cmdTask'[c].st = "wait" /\ failed'[c] = failed[c]
       /\ cpc[c] = "done"
            => /\ cpc'[c] = "done" /\ cmdTask'[c] = cmdTask[c]
               /\ errTask'[c] = errTask[c] /\ recvBy'[c] = recvBy[c]
               /\ offByFault'[c] = offByFault[c]
       /\ (cpc'[c] = "done" /\ cpc[c] # "done") => ObservesCmdClosed(c)]_vars

\* one client has returned after the command channel was closed while the
\* other, which found the fault channel closed before, executes the OFF
\* sequence for the last command
C11_Witness ==
  \E c, d \in Clients :
    /\ cpc[c] = "done" /\ OutputClosed
    /\ errRxClosed[d] /\ FaultClosed /\ cpc[d] = "off"

(***************************************************************************)
(* Properties of the CAN ingestion and of the register map                 *)
(***************************************************************************)
\* the stored value of field f of unit u, 0 when the field holds nothing
Stored(st, u, f) == UnwrapOr(GetOrInsertDefault(st[u])[f], 0)

\* C12: a step of a receive task that reads a frame sends exactly one
\* FaultSignal for its unit when the frame is a type-2 frame that was decoded
\* successfully and the error1 or error2 it stored is not zero, and sends
\* nothing otherwise (type-1 frame, both error bytes zero, decoding failed).
C12_FaultExactlyOnError ==
  [][nFrames' = nFrames + 1 =>
       LET u == lastRx'.unit IN
       IF /\ lastRx'.ok /\ lastRx'.id \in {45569, 45570}
          /\ (Stored(store', u, "error1") # 0 \/ Stored(store', u, "error2") # 0)
       THEN /\ faultQ' = Append(faultQ, u)
            /\ faultsEmitted' = [faultsEmitted EXCEPT ![u] = @ + 1]
       ELSE faultQ' = faultQ /\ faultsEmitted' = faultsEmitted]_vars

\* two frames were read: one decoded type-2 frame with error2 set raised the
\* only FaultSignal, the latest one is a decoded type-2 frame without error
C12_Witness ==
  /\ nFrames = 2 /\ Len(faultQ) = 1
  /\ lastRx.ok /\ lastRx.id \in {45569, 45570}
  /\ Stored(store, lastRx.unit, "error1") = 0
  /\ Stored(store, lastRx.unit, "error2") = 0
  /\ \E u \in Units : Stored(store, u, "error1") = 0 /\ Stored(store, u, "error2") = 8

\* C13: a client runs fault-triggered OFF sequences only for FaultSignals of
\* its own unit: it has started no more of them than its unit has raised.
C13_FaultOnlyToPairedClient ==
  \A c \in Clients : offByFault[c] <= faultsEmitted[c]

\* C14: once a valid 8-byte frame has been decoded into the store,
\* get_register returns for each field the frame carries the encoded value:
\* little-endian 16-bit values and zero-extended bytes, error1 at address 11
\* and error2 at address 12.
C14_DecodeThenGetRegister ==
  lastRx.ok =>
    LET d == lastRx.data
        self == Unwrap(store[lastRx.unit])
    IN IF lastRx.id \in {45313, 45314}
       THEN /\ GetRegister(self, 1) = Some(d[1] + 256 * d[2])
            /\ GetRegister(self, 2) = Some(d[3] + 256 * d[4])
            /\ GetRegister(self, 3) = Some(d[5])
            /\ GetRegister(self, 4) = Some(d[6])
            /\ GetRegister(self, 8) = Some(d[7])
            /\ GetRegister(self, 5) = Some(d[8])
       ELSE /\ GetRegister(self, 6) = Some(d[1] + 256 * d[2])
            /\ GetRegister(self, 7) = Some(d[3] + 256 * d[4])
            /\ GetRegister(self, 9) = Some(d[5])
            /\ GetRegister(self, 10) = Some(d[6])
            /\ GetRegister(self, 11) = Some(d[7])
            /\ GetRegister(self, 12) = Some(d[8])

(***************************************************************************)
(* Properties of the Register Server                                       *)
(***************************************************************************)
WriteFns == {"WriteSingleRegister", "WriteMultipleRegisters"}
ReadFns == {"ReadHoldingRegisters", "ReadInputRegisters"}

\* what a read of the one register a answers for the store content opt
ReadOne(opt, a) == ReadRegisters(opt, a, 1)

\* C15: a single-register write of a value <= 255 to address 21 or 22
\* succeeds, is answered with the address and the value, a read of that
\* address then returns the value, and a read of the other writable register
\* returns what it returned before.
C15_WriteThenRead ==
  [][(/\ resp' # resp /\ resp'.fn = "WriteSingleRegister"
      /\ resp'.addr \in {21, 22} /\ resp'.val <= 255)
       => LET u == resp'.unit
              other == 43 - resp'.addr
          IN /\ resp'.ok /\ resp'.exc = ""
             /\ resp'.out = <<resp'.addr, resp'.val>>
             /\ ReadOne(store'[u], resp'.addr)
                  = {[panic |-> FALSE, regs |-> <<resp'.val>>]}
             /\ ReadOne(store'[u], other) = ReadOne(store[u], other)]_vars

\* 255 was written to register 22 of a unit whose register 21 holds 253
C15_Witness ==
  /\ resp.fn = "WriteSingleRegister" /\ resp.ok
  /\ resp.addr = 22 /\ resp.val = 255
  /\ Stored(store, resp.unit, "quit") = 255
  /\ Stored(store, resp.unit, "on") = 253

\* C16: a write of a value > 255 to address 21 or 22 is answered with the
\* exception IllegalDataValue and leaves every field of every store as it was.
C16_ValueOutOfRange ==
  [][(/\ resp' # resp /\ resp'.addr \in {21, 22}
      /\ \/ resp'.fn = "WriteSingleRegister" /\ resp'.val > 255
         \/ /\ resp'.fn = "WriteMultipleRegisters" /\ resp'.vals # <<>>
            /\ resp'.vals[1] > 255)
       => /\ ~resp'.ok /\ resp'.exc = "IllegalDataValue"
          /\ store' = store]_vars

\* 256 was refused for register 21 of a unit whose register 21 holds 255
C16_Witness ==
  /\ resp.fn = "WriteSingleRegister" /\ resp.addr = 21 /\ resp.val = 256
  /\ resp.exc = "IllegalDataValue"
  /\ Stored(store, resp.unit, "on") = 255

\* C17: a write to an address in 1..12 is answered with IllegalFunction, a
\* write to an address outside 1..12 and 21..22 with IllegalDataAddress,
\* whatever the value; the stores are left as they were.
C17_ReadOnlyAndUnknown ==
  [][(/\ resp' # resp /\ resp'.addr \notin {21, 22}
      /\ \/ resp'.fn = "WriteSingleRegister"
         \/ resp'.fn = "WriteMultipleRegisters" /\ resp'.vals # <<>>)
       => /\ ~resp'.ok
          /\ resp'.exc = IF resp'.addr \in 1..12 THEN "IllegalFunction"
                         ELSE "IllegalDataAddress"
          /\ store' = store]_vars

\* a write to address 12 was refused with IllegalFunction on a unit that
\* holds written values
C17_Witness ==
  /\ resp.fn = "WriteSingleRegister" /\ resp.addr = 12
  /\ resp.exc = "IllegalFunction"
  /\ Stored(store, resp.unit, "on") = 255
  /\ Stored(store, resp.unit, "quit") = 254

\* the address the i-th value of a write-multiple request goes to, whether
\* set_register refuses it, and the exception it then returns
MultiAddr(r, i) == r.addr + i - 1
MultiRefused(r, i) == MultiAddr(r, i) \notin {21, 22} \/ r.vals[i] > 255
MultiException(r, i) ==
  IF MultiAddr(r, i) \in 1..12 THEN "IllegalFunction"
  ELSE IF MultiAddr(r, i) \in {21, 22} THEN "IllegalDataValue"
  ELSE "IllegalDataAddress"

\* the values up to the first refused one
MultiApplied(r) ==
  {i \in 1..Len(r.vals) : \A j \in 1..i : ~MultiRefused(r, j)}

FieldOf(a) ==
  CASE a = 1 -> "min_cell_voltage" [] a = 2 -> "max_cell_voltage"
    [] a = 3 -> "min_temperature" [] a = 4 -> "max_temperature"
    [] a = 5 -> "soc" [] a = 6 -> "current" [] a = 7 -> "total_voltage"
    [] a = 8 -> "info" [] a = 9 -> "warning1" [] a = 10 -> "warning2"
    [] a = 11 -> "error1" [] a = 12 -> "error2"
    [] a = 21 -> "on" [] a = 22 -> "quit" [] OTHER -> ""

\* C19: a read request (addr, cnt) within the address space, on an
\* initialized store, is answered with cnt values in address order: the
\* value of the field for a mapped address, 0 for an unmapped one, whichever
\* of the two read requests it is.
C19_ReadReturnsFields ==
  [][(/\ resp' # resp /\ resp'.fn \in ReadFns
      /\ resp'.addr + resp'.val - 1 \in 0..U16Max
      /\ IsSome(store[resp'.unit]))
       => /\ resp'.ok /\ Len(resp'.out) = resp'.val
          /\ \A i \in 1..resp'.val :
               resp'.out[i] =
                 IF FieldOf(resp'.addr + i - 1) = "" THEN 0
                 ELSE Stored(store, resp'.unit, FieldOf(resp'.addr + i - 1))]_vars

\* C20: a read request to a unit whose store was never initialized succeeds
\* and is answered with cnt zeros.
C20_UninitializedReadsZeros ==
  [][(/\ resp' # resp /\ resp'.fn \in ReadFns /\ ~IsSome(store[resp'.unit]))
       => /\ resp'.ok /\ resp'.exc = ""
          /\ resp'.out = [i \in 1..resp'.val |-> 0]]_vars

\* registers 1..12 of a never-initialized unit were read: twelve zeros
C20_Witness ==
  /\ resp.fn = "ReadHoldingRegisters" /\ resp.addr = 1 /\ resp.val = 12
  /\ ~IsSome(store[resp.unit])
  /\ resp.ok /\ resp.out = <<0, 0, 0, 0, 0, 0, 0, 0, 0, 0, 0, 0>>

(***************************************************************************)
(* Properties of the telemetry path in the running gateway                 *)
(***************************************************************************)
\* a read request within registers 1..12 is answered for a unit whose
\* receive task has not read a frame yet
ReadBeforeFirstFrame ==
  /\ resp' # resp /\ resp'.fn \in ReadFns
  /\ rxCount[resp'.unit] = 0
  /\ resp'.addr >= 1 /\ resp'.val >= 1 /\ resp'.addr + resp'.val - 1 <= 12

\* C21 as stated: a read of registers within 1..12 before the first frame
\* of the unit is answered with zeros only.
C21_ZerosBeforeFirstFrame ==
  [][ReadBeforeFirstFrame
       => /\ resp'.ok /\ Len(resp'.out) = resp'.val
          /\ \A i \in 1..resp'.val : resp'.out[i] = 0]_vars

\* C21 (amended): a read of registers within 1..12 before the first frame
\* of the unit succeeds with one value per register: 255 for the registers
\* 8 (info), 11 and 12 (error1, error2), 0 for every other one.
C21_InitialValuesBeforeFirstFrame ==
  [][ReadBeforeFirstFrame
       => /\ resp'.ok /\ resp'.exc = "" /\ Len(resp'.out) = resp'.val
          /\ \A i \in 1..resp'.val :
               resp'.out[i] = IF resp'.addr + i - 1 \in {8, 11, 12} THEN 255
                              ELSE 0]_vars

\* registers 1..12 of a unit without a frame were read after the other unit
\* had decoded one
C21_Witness ==
  /\ resp.fn = "ReadHoldingRegisters" /\ resp.addr = 1 /\ resp.val = 12
  /\ rxCount[resp.unit] = 0
  /\ \E u \in Units : rxCount[u] > 0 /\ lastRx.ok
  /\ resp.ok /\ resp.out = <<0, 0, 0, 0, 0, 0, 0, 255, 0, 0, 255, 255>>

\* a receive task has read a frame in this step
FrameStep == nFrames' = nFrames + 1

\* C22: a frame of a recognized identifier whose payload is not 8 bytes long
\* fails to decode with InvalidCanDataLength, expected = 8 and actual = the
\* length of the payload, and the stores are left as they were.
C22_InvalidLengthRejected ==
  [][(FrameStep /\ Len(lastRx'.data) # 8)
       => /\ ~lastRx'.ok /\ lastRx'.err = "InvalidCanDataLength"
          /\ lastRx'.expected = 8 /\ lastRx'.actual = Len(lastRx'.data)
          /\ store' = store]_vars

\* the fields of unit u hold what the valid frame (id, d) carries
HoldsFrame(st, u, id, d) ==
  IF id \in {45313, 45314}
  THEN /\ Stored(st, u, "min_cell_voltage") = FromLeBytes(d[1], d[2])
       /\ Stored(st, u, "max_cell_voltage") = FromLeBytes(d[3], d[4])
       /\ Stored(st, u, "min_temperature") = d[5]
       /\ Stored(st, u, "max_temperature") = d[6]
       /\ Stored(st, u, "info") = d[7]
       /\ Stored(st, u, "soc") = d[8]
  ELSE /\ Stored(st, u, "current") = FromLeBytes(d[1], d[2])
       /\ Stored(st, u, "total_voltage") = FromLeBytes(d[3], d[4])
       /\ Stored(st, u, "warning1") = d[5]
       /\ Stored(st, u, "warning2") = d[6]
       /\ Stored(st, u, "error1") = d[7]
       /\ Stored(st, u, "error2") = d[8]

\* C23: a frame that fails to decode is dropped: no FaultSignal is sent, the
\* stores are left as they were and the receive task goes on; a valid frame
\* (recognized identifier, 8 bytes), whatever was read before it, is decoded
\* into the store.
C23_InvalidFrameDoesNotStop ==
  [][FrameStep
       => LET u == lastRx'.unit IN
          /\ ~lastRx'.ok
               => /\ faultQ' = faultQ /\ faultsEmitted' = faultsEmitted
                  /\ store' = store /\ u \in rxAlive'
          /\ (lastRx'.id \in CanIds(u) /\ Len(lastRx'.data) = 8)
               => /\ lastRx'.ok
                  /\ HoldsFrame(store', u, lastRx'.id, lastRx'.data)]_vars

(***************************************************************************)
(* Properties of the tasks when a store lock is poisoned                   *)
(***************************************************************************)
\* C24: a read, write-single or write-multiple request to the Register
\* Server of a unit whose lock is poisoned is answered with the exception
\* ServerDeviceFailure and leaves the stores as they were.
C24_PoisonedServerFails ==
  [][(resp' # resp /\ resp'.unit \in poisoned)
       => /\ ~resp'.ok /\ resp'.exc = "ServerDeviceFailure"
          /\ resp'.out = <<>>
          /\ store' = store]_vars

\* a write-multiple request was refused on a poisoned unit that had accepted
\* a write before, while the other unit's lock is sound
C24_Witness ==
  /\ resp.fn = "WriteMultipleRegisters" /\ resp.exc = "ServerDeviceFailure"
  /\ poisoned = {resp.unit}
  /\ Stored(store, resp.unit, "on") = 255

\* the lock the router takes at each of its positions
RouterLock ==
  [read1 |-> 1, read2 |-> 2, write1 |-> 1, write2 |-> 2]

\* C25: an access of a receive task, of the router or of the unfreeze thread
\* to a poisoned lock changes no store and ends the task with LockPoisoned;
\* a task that has ended reads no further frame, sends no further
\* FaultSignal, decides on and forwards no further command and starts no
\* unfreeze thread.
C25_PoisonedLockIsFatal ==
  [][/\ (FrameStep /\ lastRx'.unit \in poisoned)
          => /\ lastRx'.err = "LockPoisoned" /\ lastRx'.unit \notin rxAlive'
             /\ store' = store /\ faultQ' = faultQ
     /\ \A u \in Units \ rxAlive :
          /\ u \notin rxAlive' /\ rxCount'[u] = rxCount[u]
          /\ faultsEmitted'[u] = faultsEmitted[u]
     /\ (/\ rpc \in DOMAIN RouterLock /\ rpc' # rpc
         /\ RouterLock[rpc] \in poisoned)
          => rpc' = "failed" /\ store' = store /\ forwarded' = forwarded
     /\ rpc = "failed"
          => /\ rpc' = "failed" /\ forwarded' = forwarded /\ outputQ' = outputQ
             /\ checked' = checked /\ inputQ' = inputQ
             /\ resetSleep' <= resetSleep
     /\ (resetSleep' < resetSleep /\ 1 \in poisoned)
          => store' = store /\ resetMid' = resetMid
     /\ (resetMid' < resetMid /\ 2 \in poisoned)
          => store' = store /\ resetsDone' = resetsDone]_vars

\* unit 2's lock is poisoned: the router has ended between its two writes
\* with a command still waiting, and unit 2's receive task has ended
C25_Witness ==
  /\ poisoned = {2}
  /\ rpc = "failed" /\ Frozen(store, 1) /\ ~Frozen(store, 2)
  /\ inputQ # <<>>
  /\ 2 \notin rxAlive /\ lastRx.err = "LockPoisoned" /\ 1 \in rxAlive

(***************************************************************************)
(* Properties of the command consumers                                     *)
(***************************************************************************)
\* C27: no consumer of the output channel ends because of a command: the CAN
\* transmitter stays in its receive loop and every Inverter Client stays in
\* its cycle, whatever command they take.
C27_ConsumersKeepRunning ==
  [][/\ txpc = "recv" => txpc' = "recv"
     /\ \A c \in Clients : cpc[c] \in ClientRunning => cpc'[c] \in ClientRunning]_vars

(***************************************************************************)
(* Properties of the freeze and of the unfreeze                            *)
(***************************************************************************)
\* C28: the accept freezes both units atomically: no step of another task
\* that takes a store lock (a receive task storing a frame) starts in a state
\* in which unit 1 is frozen and unit 2 is not.
C28_FreezeIsAtomic ==
  [][FrameStep => ~(Frozen(store, 1) /\ ~Frozen(store, 2))]_vars

\* C29: with no lock poisoned, a frozen router becomes Idle again (the
\* unfreeze thread of the accept sets control_frozen to false on both units),
\* and a command the router takes up in Idle is accepted and forwarded.
C29_UnfreezeEventually ==
  /\ (~Idle) ~> Idle
  /\ (rpc = "read1" /\ Idle) ~> (rpc = "send")

\* the unfreeze of a first accept has run, a later command was accepted and
\* forwarded, and its unfreeze has run too
C29_Witness ==
  /\ Idle /\ resetsDone = 2 /\ Len(forwarded) = 2
  /\ poisoned = {}

(***************************************************************************)
(* Properties of the order of the forwarded commands                       *)
(***************************************************************************)
\* s can be obtained from t by deleting elements
RECURSIVE IsSubseq(_, _)
IsSubseq(s, t) ==
  IF s = <<>> THEN TRUE
  ELSE IF t = <<>> THEN FALSE
  ELSE IF Head(s) = Head(t) THEN IsSubseq(Tail(s), Tail(t))
  ELSE IsSubseq(s, Tail(t))

\* C30: the commands the router has forwarded, in the order it forwarded
\* them and with the values it forwarded, are a subsequence of the commands
\* in their order of arrival on the input channel; the output channel
\* carries them in that order.
C30_ForwardedInArrivalOrder ==
  /\ IsSubseq(forwarded, arrived)
  /\ \E k \in 0..Len(forwarded) :
       outputQ = SubSeq(forwarded, k + 1, Len(forwarded))

\* three different commands arrived; the second came during the freeze and
\* was dropped, the first and the third were forwarded
C30_Witness ==
  /\ arrived = <<"Quit", "Off", "On">>
  /\ forwarded = <<"Quit", "On">>

(***************************************************************************)
(* Properties of the store locks                                           *)
(***************************************************************************)
\* no task asks for a store lock while it holds a guard of either lock
NoHoldAndWait == \A t \in LockTasks : AtAcquire(t) => Holds(t) = {}

\* the tasks that hold a guard of unit u's lock
Holders(u) == {t \in LockTasks : u \in Holds(t)}

\* a task whose lock call blocks is kept out by other tasks only, and each
\* of them is inside its block, about to drop the guard, waiting for nothing
BlockedOnlyByRunning ==
  \A t \in LockTasks :
    (AtAcquire(t) /\ ~Available(LockOp(t).mode, LockOp(t).unit))
      => \A h \in Holders(LockOp(t).unit) :
           h # t /\ AtRelease(h) /\ LockOp(h).unit = LockOp(t).unit

\* C26 as stated: no task waits for a store lock while it holds the other
\* unit's lock or the same lock, and under a fair scheduler every task that
\* asks for a lock is granted it.
C26_EveryRequestGranted ==
  /\ []NoHoldAndWait
  /\ \A t \in LockTasks : \A u \in Units :
       (AtAcquire(t) /\ LockOp(t).unit = u) ~> (u \in Holds(t))

\* C26, amended: no task waits for a store lock while it holds a guard of
\* either lock; a blocked task is kept out only by tasks that are about to
\* drop their guard; under a fair scheduler every guard is dropped.
C26_LocksNeverDeadlock ==
  /\ []NoHoldAndWait
  /\ []BlockedOnlyByRunning
  /\ \A t \in LockTasks : \A u \in Units :
       (u \in Holds(t)) ~> (u \notin Holds(t))

\* the router waits for unit 1's write lock, which unit 1's receive task
\* holds, while unit 1's Register Server waits for it too
C26_Witness ==
  /\ lrun["router"].idx = 5 /\ AtAcquire("router")
  /\ held[1].writer = "rx1"
  /\ AtAcquire("server1")

(***************************************************************************)
(* Properties of the order of the select branches                          *)
(***************************************************************************)
\* client c waits in its select with the receive on output_rx returned
CmdReady(c) == cpc[c] = "select" /\ cmdTask[c].st = "got"

\* client c's select has both receives returned
BothReady(c) == CmdReady(c) /\ errTask[c].st = "got"

\* client c leaves the select round it is in
SelectResolves(c) ==
  cpc[c] = "select" /\ (cpc'[c] # "select" \/ cmdTask'[c].st = "wait" \/ errTask'[c].st = "idle")
    /\ (cmdTask'[c] # cmdTask[c] \/ errTask'[c] # errTask[c] \/ cpc'[c] # cpc[c])

\* C31: a select that has the command receive and the fault receive both
\* returned takes the command branch; a select that has the fault receive
\* returned and the command receive pending takes the fault branch and never
\* the keepalive branch.
C31_BiasedSelect ==
  /\ [](\A c \in Clients :
          /\ BothReady(c) => ENABLED ClientSelectCmd(c)
          /\ FaultReady(c) => ENABLED ClientSelectFault(c))
  /\ [][\A c \in Clients :
          /\ (CmdReady(c) /\ SelectResolves(c))
               => /\ recvBy'[c] = recvBy[c] + 1
                  /\ offByFault'[c] = offByFault[c]
                  /\ cpc'[c] # "keepalive"
          /\ (FaultReady(c) /\ SelectResolves(c))
               => /\ offByFault'[c] = offByFault[c] + 1
                  /\ cpc'[c] = "off"]_vars

\* a client's select has the command Off and a FaultSignal both received
C31_Witness ==
  \E c \in Clients : BothReady(c) /\ cmdTask[c].val = "Off" /\ forwarded = <<"Off">>

(***************************************************************************)
(* Properties of the writers of the stores                                 *)
(***************************************************************************)
\* the fields a type-1 frame (0xB101 | 0xB102) and a type-2 frame
\* (0xB201 | 0xB202) carry
Type1Fields ==
  {"min_cell_voltage", "max_cell_voltage", "min_temperature",
   "max_temperature", "info", "soc"}

Type2Fields ==
  {"current", "total_voltage", "warning1", "warning2", "error1", "error2"}

TelemetryFields == Type1Fields \cup Type2Fields

AllFields == DOMAIN BmsDataInitial

\* field f of unit u's store in st, None while the store holds no BmsData
Field(st, u, f) == IF IsSome(st[u]) THEN Unwrap(st[u])[f] ELSE None

\* C32: a step of a receive task that decodes a frame successfully leaves
\* every field the frame does not carry as it was in the unit's store, and
\* leaves the other unit's store as it was.
C32_FrameChangesOnlyItsFields ==
  [][(FrameStep /\ lastRx'.ok) =>
       LET u == lastRx'.unit
           carried == IF lastRx'.id \in {45313, 45314} THEN Type1Fields
                      ELSE Type2Fields
       IN /\ \A f \in AllFields \ carried : Field(store', u, f) = Field(store, u, f)
          /\ \A f \in carried : IsSome(Field(store', u, f))
          /\ \A v \in Units \ {u} : store'[v] = store[v]]_vars

\* unit 1's receive task has decoded its type-2 frame after its type-1
\* frame; the values of the type-1 frame, the value written to `on` and the
\* freeze are still in the store
C32_Witness ==
  /\ lastRx.ok /\ lastRx.unit = 1 /\ lastRx.id = 45569 /\ rxCount[1] = 2
  /\ Field(store, 1, "min_cell_voltage") = Some(4660)
  /\ Field(store, 1, "error1") = Some(7)
  /\ Field(store, 1, "on") = Some(1)
  /\ Frozen(store, 1)

\* the step is one of unit u's receive task reading a frame
RxStepOf(u) == FrameStep /\ lastRx'.unit = u

\* the step is a write request answered by unit u's Register Server
ServerWriteStepOf(u) ==
  resp' # resp /\ resp'.unit = u /\ resp'.fn \in WriteFns

\* the step is one of the router or of its unfreeze thread
RouterOrResetStep ==
  rpc' # rpc \/ resetSleep' # resetSleep \/ resetMid' # resetMid

\* C33: the telemetry fields of a unit change only in a step of that unit's
\* receive task, its on and quit only in a write step of that unit's
\* Register Server, and control_frozen only in a step of the Command Router
\* or of its unfreeze thread.
C33_FieldOwnership ==
  [][\A u \in Units :
       /\ (\E f \in TelemetryFields : Field(store', u, f) # Field(store, u, f))
            => RxStepOf(u)
       /\ (\E f \in {"on", "quit"} : Field(store', u, f) # Field(store, u, f))
            => ServerWriteStepOf(u)
       /\ Field(store', u, "control_frozen") # Field(store, u, "control_frozen")
            => RouterOrResetStep]_vars

\* all three owners have written to unit 2's store: a decoded type-2 frame,
\* a write of on and of quit, and the freeze
C33_Witness ==
  /\ Field(store, 2, "error1") = Some(7)
  /\ Field(store, 2, "on") = Some(2) /\ Field(store, 2, "quit") = Some(1)
  /\ Frozen(store, 2)

(***************************************************************************)
(* Properties of the pending unfreeze                                      *)
(***************************************************************************)
\* unfreeze threads that have not done their last write
PendingResets == resetSleep + resetMid

\* C34: at most one unfreeze thread is pending; the router decides to accept
\* only when none is pending; from the spawn to the thread's first write both
\* units are frozen; and a write of an unfreeze thread happens only while the
\* accept that spawned it is the latest one.
C34_OneUnfreezePending ==
  /\ [](PendingResets <= 1)
  /\ [](rpc \in {"write1", "write2", "spawn"} => PendingResets = 0)
  /\ [](resetSleep > 0 => Frozen(store, 1) /\ Frozen(store, 2))
  /\ [][(resetSleep' < resetSleep \/ resetMid' < resetMid)
          => /\ NumAccepted = resetsDone + 1
             /\ rpc \in {"send", "recv", "read1", "read2"}]_vars

\* the router is in the middle of its second accept and the unfreeze of the
\* first has finished
C34_Witness ==
  /\ rpc = "write2" /\ NumAccepted = 2
  /\ resetsDone = 1 /\ PendingResets = 0

(***************************************************************************)
(* Properties of a FaultSignal that waits in the fault channel             *)
(***************************************************************************)
\* no client waits in its select: each is Disconnected (about to connect),
\* backing off or writing an OFF sequence
NoClientSelects == \A c \in Clients : cpc[c] \in {"connect", "backoff", "off"}

\* C35: a FaultSignal that is in the fault channel while every Inverter
\* Client is Disconnected, backing off or busy with an OFF sequence stays
\* queued: no step takes it out of the channel before a client waits in the
\* Connected state again.
C35_FaultStaysQueued ==
  [][(NoClientSelects /\ faultQ # <<>>) => Len(faultQ') >= Len(faultQ)]_vars

(***************************************************************************)
(* Properties of a rejected write-multiple request                         *)
(***************************************************************************)
\* the answer is the exception of a refused value
MultiRejected(r) ==
  /\ r.fn = "WriteMultipleRegisters" /\ ~r.ok
  /\ r.exc \in {"IllegalFunction", "IllegalDataAddress", "IllegalDataValue"}

RangeLen(r) ==
  IF r.fn = "WriteMultipleRegisters" THEN Len(r.vals) ELSE r.val

\* the range addr .. addr + n - 1 of the request passes address 65535
PassesU16Max(r) ==
  /\ r.fn \in {"ReadHoldingRegisters", "ReadInputRegisters",
               "WriteMultipleRegisters"}
  /\ r.addr + RangeLen(r) - 1 > U16Max

\* C37: a read or write-multiple request whose range would pass address
\* 65535 neither aborts the handler nor is served from the wrapped-around
\* addresses 0, 1, ...: it gets an answer, and not one register for each
\* address of the range.
C37_NoAddressOverflow ==
  PassesU16Max(resp) =>
    /\ resp.exc # "panic"
    /\ ~(resp.ok /\ Len(resp.out) = RangeLen(resp))

====
